---- MODULE Spec2Model ----
(***************************************************************************)
(* TrainerCentral API wrapper: the in-memory OAuth stores                  *)
(* (utils/user_oauth.py), the OAuth flow controller (routers/oauth.py),    *)
(* the upstream Gateway clients (library/*.py), the date converter         *)
(* (utils/date_converter.py) and the HTTP front door (app.py, routers/).   *)
(*                                                                         *)
(* Python values: a str is a TLA+ string, Python's None of a str-typed     *)
(* place is the value None, Python's None of a dict-typed place is         *)
(* NoneDict (TLC cannot compare a string with a record), a dict is a       *)
(* function from its keys to its values, a URI is the tuple of the chunks  *)
(* of its text (so that str.startswith is a prefix test) and NoUri is the  *)
(* None of a URI-typed place.                                              *)
(***************************************************************************)
EXTENDS Integers, Sequences, FiniteSets, TLC

VARIABLES
    TOKEN_STORE,       \* user_oauth._TOKEN_STORE: session_id -> tokens
    AUTH_CODE_STORE,   \* user_oauth._AUTH_CODE_STORE: auth_code -> entry
    USER_ORG_INFO,     \* user_oauth._USER_ORG_INFO: {"org_id", "domain"}
    now,               \* the reading time.time() gives
    env,               \* os.environ, as far as the code reads it
    h,                 \* the request handlers running consume_auth_code or
                       \* store_user_org_info
    minted,            \* history: the create_auth_code calls made so far
    orgStored,         \* history: store_user_org_info has been called
    resp,              \* the outcome of the last operation that completed
    lastCall           \* history: per session, the last store_tokens or
                       \* clear_tokens call made for it

vars == <<TOKEN_STORE, AUTH_CODE_STORE, USER_ORG_INFO, now, env, h, minted,
          orgStored, resp, lastCall>>

----------------------------------------------------------------------------
(* Bounds of the model *)

MaxTime == 1      \* the clock is read in 0 .. MaxTime
MaxMints == 2     \* create_auth_code is called at most MaxMints times

----------------------------------------------------------------------------
(* Python values *)

None == "None"
NoneDict == [none |-> TRUE]
NoUri == <<"None">>

\* `not v` for a str-or-None value v
Falsy(v) == v = None \/ v = ""

\* d.get(k, default) of a dict d
Get(d, k, default) == IF k \in DOMAIN d THEN d[k] ELSE default

\* d after d.pop(k, None) / after `del d[k]` when present
Pop(d, k) == [x \in (DOMAIN d) \ {k} |-> d[x]]

\* d after d[k] = v
Put(d, k, v) == [x \in (DOMAIN d) \cup {k} |-> IF x = k THEN v ELSE d[x]]

EmptyDict == [x \in {} |-> NoneDict]

\* A str whose characters the code looks at is the tuple of its characters; a
\* Python int that came out of int() is kept as its sign and decimal digits,
\* so that no value is cut to the width of the model checker's integers.

DigitChars == {"0", "1", "2", "3", "4", "5", "6", "7", "8", "9"}
Whitespace == {" ", "\t", "\n"}

DigitVal(c) ==
    CASE c = "0" -> 0 [] c = "1" -> 1 [] c = "2" -> 2 [] c = "3" -> 3
      [] c = "4" -> 4 [] c = "5" -> 5 [] c = "6" -> 6 [] c = "7" -> 7
      [] c = "8" -> 8 [] c = "9" -> 9

DigitChar(n) ==
    CASE n = 0 -> "0" [] n = 1 -> "1" [] n = 2 -> "2" [] n = 3 -> "3"
      [] n = 4 -> "4" [] n = 5 -> "5" [] n = 6 -> "6" [] n = 7 -> "7"
      [] n = 8 -> "8" [] n = 9 -> "9"

\* c in s
In(c, s) == \E i \in 1..Len(s) : s[i] = c

\* s.count(c)
Count(s, c) == Cardinality({i \in 1..Len(s) : s[i] = c})

\* s.replace("Z", "+00:00")
RECURSIVE ReplaceZ(_)
ReplaceZ(s) ==
    IF s = <<>> THEN <<>>
    ELSE (IF Head(s) = "Z" THEN <<"+", "0", "0", ":", "0", "0">> ELSE <<Head(s)>>)
         \o ReplaceZ(Tail(s))

\* the pieces of s between the characters of seps, empty pieces included
RECURSIVE Pieces(_, _)
Pieces(s, seps) ==
    IF \A i \in 1..Len(s) : s[i] \notin seps
    THEN <<s>>
    ELSE LET i == CHOOSE k \in 1..Len(s) :
                      s[k] \in seps /\ \A j \in 1..(k - 1) : s[j] \notin seps
         IN  <<SubSeq(s, 1, i - 1)>> \o Pieces(SubSeq(s, i + 1, Len(s)), seps)

NonEmpty(s) == s # <<>>

\* s.split(): the runs of characters other than whitespace
SplitWhitespace(s) == SelectSeq(Pieces(s, Whitespace), NonEmpty)

\* s.split(sep)
Split(s, sep) == Pieces(s, {sep})

\* s.strip()
RECURSIVE Strip(_)
Strip(s) ==
    IF s # <<>> /\ Head(s) \in Whitespace THEN Strip(Tail(s))
    ELSE IF s # <<>> /\ s[Len(s)] \in Whitespace THEN Strip(SubSeq(s, 1, Len(s) - 1))
    ELSE s

AllDigits(s) == s # <<>> /\ \A i \in 1..Len(s) : s[i] \in DigitChars

\* the value of a string of at most nine digits
RECURSIVE ToInt(_)
ToInt(ds) ==
    IF ds = <<>> THEN 0
    ELSE 10 * ToInt(SubSeq(ds, 1, Len(ds) - 1)) + DigitVal(ds[Len(ds)])

RECURSIVE StripZeros(_)
StripZeros(ds) ==
    IF Len(ds) > 1 /\ Head(ds) = "0" THEN StripZeros(Tail(ds)) ELSE ds

\* a > b for digit strings of one length
RECURSIVE DigitsGreater(_, _)
DigitsGreater(a, b) ==
    /\ a # <<>>
    /\ \/ DigitVal(Head(a)) > DigitVal(Head(b))
       \/ Head(a) = Head(b) /\ DigitsGreater(Tail(a), Tail(b))

\* a Python int: its sign and its digits without leading zeros
PyIntValue(neg, mag) == [raised |-> None, neg |-> neg /\ mag # <<"0">>, mag |-> mag]
PyIntError == [raised |-> "ValueError", neg |-> FALSE, mag |-> <<>>]

\* int(s) of a str: whitespace around, a sign, decimal digits (the `_`
\* grouping of digits is left out of the alphabet)
PyIntStr(s) ==
    LET t == Strip(s)
        signed == t # <<>> /\ Head(t) \in {"+", "-"}
        ds == IF signed THEN Tail(t) ELSE t
    IN  IF AllDigits(ds)
        THEN PyIntValue(signed /\ Head(t) = "-", StripZeros(ds))
        ELSE PyIntError

\* the decimal digits of n >= 0
RECURSIVE Decimal(_)
Decimal(n) ==
    IF n < 10 THEN <<DigitChar(n)>>
    ELSE Decimal(n \div 10) \o <<DigitChar(n % 10)>>

\* the int n as a Python int
PyIntOf(n) ==
    IF n < 0 THEN PyIntValue(TRUE, Decimal(-n)) ELSE PyIntValue(FALSE, Decimal(n))

\* str(v) of a Python int
PyStr(v) == IF v.neg THEN <<"-">> \o v.mag ELSE v.mag

\* v * 1000 of a Python int
Times1000(v) ==
    IF v.mag = <<"0">> THEN v ELSE [v EXCEPT !.mag = v.mag \o <<"0", "0", "0">>]

\* the largest C int, 2147483647, and the magnitude of the smallest
CIntMax == <<"2", "1", "4", "7", "4", "8", "3", "6", "4", "7">>
CIntMin == <<"2", "1", "4", "7", "4", "8", "3", "6", "4", "8">>

\* a Python int does not fit a C int: the argument conversion of datetime()
\* raises OverflowError
OverflowsCInt(v) ==
    LET limit == IF v.neg THEN CIntMin ELSE CIntMax
    IN  \/ Len(v.mag) > Len(limit)
        \/ Len(v.mag) = Len(limit) /\ DigitsGreater(v.mag, limit)

\* the value of a Python int that fits a C int
IntOf(v) ==
    LET lead == ToInt(SubSeq(v.mag, 1, Len(v.mag) - 1))
        last == DigitVal(v.mag[Len(v.mag)])
        n == IF Len(v.mag) = 1 THEN last ELSE 10 * lead + last
    IN  IF v.neg THEN 0 - n ELSE n

----------------------------------------------------------------------------
(* utils/user_oauth.py *)

SessionIds == {"s1", "s2"}
Codes == {"c1", "c2"}
Handlers == {"h1", "h2"}
ExpiresIn == {0, 1}
OrgIds == {"o1", "o2"}
Domains == {"d1", "d2"}

\* the token set handed to create_auth_code
AuthCodeTokens == {[access_token |-> "at1"], [access_token |-> "at2"]}

\* a value of the provider's JSON of which the code takes int(): a number, a
\* string or null
JsonInt(n) == [int |-> n]
JsonStr(s) == [str |-> s]
JsonNull == [null |-> TRUE]

\* Token sets: the dicts a provider's token endpoint answers with
TokenSets ==
    { [access_token |-> "at1"],
      [access_token |-> "at2", refresh_token |-> "rt2",
       expires_in |-> JsonInt(7200), token_type |-> "Zoho-oauthtoken",
       scope |-> "sc"] }

\* Token sets whose expires_in is not a JSON number
OddTokenSets ==
    { [access_token |-> "at3", expires_in |-> JsonStr(<<" ", "7", "2", "0", "0">>)],
      [access_token |-> "at4", expires_in |-> JsonStr(<<"s", "o", "o", "n">>)],
      [access_token |-> "at5", expires_in |-> JsonNull] }

InitOrgInfo == [org_id |-> None, domain |-> None]

\* the `entry` local of consume_auth_code when pop found nothing
NoneEntry == [tokens |-> NoneDict, expires_at |-> 0, mint |-> 0]

\* uuid.uuid4().hex: any code; nothing in create_auth_code looks at the store
uuid4 == Codes

\* a handler: its place in consume_auth_code, the locals code and entry, what
\* it returned, and as history of its call: mint, the create_auth_code call
\* the popped entry came from; spent, whether the code's token set had
\* already been returned when the call was made; clock, where the call was
\* made relative to the time expires_in after the code was minted; last, the
\* latest create_auth_code call that had returned the code when the call was
\* made; first, whether no consume_auth_code call had been made on the code
\* since
IdleHandler ==
    [pc |-> "idle", code |-> None, entry |-> NoneEntry, result |-> NoneDict,
     mint |-> 0, spent |-> FALSE, clock |-> "unminted", last |-> 0,
     first |-> FALSE]

NoResp == [op |-> "none"]

\* history: the call `op` was made for session_id
Called(op, session_id, tokens) ==
    Put(lastCall, session_id, [op |-> op, tokens |-> tokens])

\* variant: the store is replaced by the one entry
store_tokens_alone(session_id, tokens) ==
    /\ TOKEN_STORE' = (session_id :> tokens)
    /\ resp' = [op |-> "store_tokens", session_id |-> session_id]
    /\ lastCall' = Called("store_tokens", session_id, tokens)
    /\ UNCHANGED <<AUTH_CODE_STORE, USER_ORG_INFO, now, env, h, minted, orgStored>>

store_tokens(session_id, tokens) ==
    /\ TOKEN_STORE' = Put(TOKEN_STORE, session_id, tokens)
    /\ resp' = [op |-> "store_tokens", session_id |-> session_id]
    /\ lastCall' = Called("store_tokens", session_id, tokens)
    /\ UNCHANGED <<AUTH_CODE_STORE, USER_ORG_INFO, now, env, h, minted, orgStored>>

\* _TOKEN_STORE.get(session_id)
get_tokens(session_id) == Get(TOKEN_STORE, session_id, NoneDict)

\* a call of get_tokens(session_id) and what it returns
get_tokens_call(session_id) ==
    /\ resp' = [op |-> "get_tokens", session_id |-> session_id,
                result |-> get_tokens(session_id)]
    /\ UNCHANGED <<TOKEN_STORE, AUTH_CODE_STORE, USER_ORG_INFO, now, env, h,
                   minted, orgStored, lastCall>>

\* variant: the whole store is emptied
clear_all_tokens(session_id) ==
    /\ TOKEN_STORE' = EmptyDict
    /\ resp' = [op |-> "clear_tokens", session_id |-> session_id]
    /\ lastCall' = Called("clear_tokens", session_id, NoneDict)
    /\ UNCHANGED <<AUTH_CODE_STORE, USER_ORG_INFO, now, env, h, minted, orgStored>>

clear_tokens(session_id) ==
    /\ TOKEN_STORE' = Pop(TOKEN_STORE, session_id)
    /\ resp' = [op |-> "clear_tokens", session_id |-> session_id]
    /\ lastCall' = Called("clear_tokens", session_id, NoneDict)
    /\ UNCHANGED <<AUTH_CODE_STORE, USER_ORG_INFO, now, env, h, minted, orgStored>>

store_user_org_info(org_id, domain) ==
    /\ USER_ORG_INFO' = [USER_ORG_INFO EXCEPT !.org_id = org_id, !.domain = domain]
    /\ orgStored' = TRUE
    /\ resp' = [op |-> "store_user_org_info"]
    /\ UNCHANGED <<TOKEN_STORE, AUTH_CODE_STORE, now, env, h, minted, lastCall>>

\* _USER_ORG_INFO.copy()
get_user_org_info == USER_ORG_INFO

\* store_user_org_info(org_id, domain), line 44: handler p assigns org_id
store_org_id(p, org_id, domain) ==
    /\ h[p].pc = "idle"
    /\ USER_ORG_INFO' = [USER_ORG_INFO EXCEPT !.org_id = org_id]
    /\ h' = [h EXCEPT ![p] = [pc |-> "org_id_stored", org_id |-> org_id,
                               domain |-> domain]]
    /\ UNCHANGED <<TOKEN_STORE, AUTH_CODE_STORE, now, env, minted, orgStored,
                   resp, lastCall>>

\* store_user_org_info, line 45: handler p assigns domain and returns
store_domain(p) ==
    /\ h[p].pc = "org_id_stored"
    /\ USER_ORG_INFO' = [USER_ORG_INFO EXCEPT !.domain = h[p].domain]
    /\ h' = [h EXCEPT ![p].pc = "stored"]
    /\ orgStored' = TRUE
    /\ UNCHANGED <<TOKEN_STORE, AUTH_CODE_STORE, now, env, minted, resp, lastCall>>

\* a call of get_user_org_info() and what it returns
get_user_org_info_call ==
    /\ resp' = [op |-> "get_user_org_info", result |-> get_user_org_info]
    /\ UNCHANGED <<TOKEN_STORE, AUTH_CODE_STORE, USER_ORG_INFO, now, env, h,
                   minted, orgStored, lastCall>>

\* expires_at = time.time() + expires_in
ExpiresAt(t, expires_in) == t + expires_in

\* create_auth_code(tokens, expires_in), the code it returns being `code`;
\* minted records the call, `due` being the time expires_in after it
create_auth_code(tokens, expires_in, code) ==
    /\ Len(minted) < MaxMints
    /\ code \in uuid4
    /\ AUTH_CODE_STORE' =
           Put(AUTH_CODE_STORE, code,
               [tokens |-> tokens, expires_at |-> ExpiresAt(now, expires_in),
                mint |-> Len(minted) + 1])
    /\ minted' = Append(minted, [code |-> code, tokens |-> tokens,
                                 expires_in |-> expires_in,
                                 due |-> now + expires_in, served |-> 0,
                                 called |-> FALSE])
    /\ UNCHANGED <<TOKEN_STORE, USER_ORG_INFO, now, env, h, orgStored, resp, lastCall>>

\* variant: the entry is read and left in the store
PopKeeps(store, code) == store

\* the store after `entry = _AUTH_CODE_STORE.pop(code, None)`
PopEntry(store, code) == Pop(store, code)

\* variant: expires_at is not looked at
ExpiredNever(entry, t) == FALSE

\* entry.get("expires_at", 0) < time.time()
Expired(entry, t) == entry.expires_at < t

\* history: the last create_auth_code call that returned `code`, 0 if none
RECURSIVE LastMintFrom(_, _)
LastMintFrom(m, code) ==
    IF m = 0 THEN 0
    ELSE IF minted[m].code = code THEN m
    ELSE LastMintFrom(m - 1, code)

LastMint(code) == LastMintFrom(Len(minted), code)

\* history: the time t relative to the time expires_in after `code` was minted
ClockAt(t, code) ==
    LET m == LastMint(code) IN
    IF m = 0 THEN "unminted"
    ELSE IF t < minted[m].due THEN "before"
    ELSE IF t = minted[m].due THEN "at"
    ELSE "after"

\* variant: an expired entry is looked at and left in the store
consume_pop_live(p, code) ==
    /\ h[p].pc # "popped"
    /\ LET entry == Get(AUTH_CODE_STORE, code, NoneEntry) IN
        /\ h' = [h EXCEPT ![p] =
                    [pc |-> "popped", code |-> code, entry |-> entry,
                     result |-> NoneDict, mint |-> entry.mint,
                     spent |-> LastMint(code) # 0 /\ minted[LastMint(code)].served > 0,
                     clock |-> ClockAt(now, code),
                     last |-> LastMint(code),
                     first |-> LastMint(code) # 0 /\ ~minted[LastMint(code)].called]]
        /\ AUTH_CODE_STORE' = IF entry # NoneEntry /\ Expired(entry, now)
                                THEN AUTH_CODE_STORE
                                ELSE PopEntry(AUTH_CODE_STORE, code)
    /\ minted' = IF LastMint(code) = 0 THEN minted
                  ELSE [minted EXCEPT ![LastMint(code)].called = TRUE]
    /\ UNCHANGED <<TOKEN_STORE, USER_ORG_INFO, now, env, orgStored, resp, lastCall>>

\* consume_auth_code(code), line 73: handler p calls it and pops the entry
consume_pop(p, code) ==
    /\ h[p].pc # "popped"
    /\ LET entry == Get(AUTH_CODE_STORE, code, NoneEntry) IN
           h' = [h EXCEPT ![p] =
                    [pc |-> "popped", code |-> code, entry |-> entry,
                     result |-> NoneDict, mint |-> entry.mint,
                     spent |-> LastMint(code) # 0 /\ minted[LastMint(code)].served > 0,
                     clock |-> ClockAt(now, code),
                     last |-> LastMint(code),
                     first |-> LastMint(code) # 0 /\ ~minted[LastMint(code)].called]]
    /\ AUTH_CODE_STORE' = PopEntry(AUTH_CODE_STORE, code)
    /\ minted' = IF LastMint(code) = 0 THEN minted
                  ELSE [minted EXCEPT ![LastMint(code)].called = TRUE]
    /\ UNCHANGED <<TOKEN_STORE, USER_ORG_INFO, now, env, orgStored, resp, lastCall>>

\* variant: the entry is returned, not its tokens
consume_result_entry(entry, t) ==
    IF entry = NoneEntry THEN NoneDict
    ELSE IF Expired(entry, t) THEN NoneDict
    ELSE entry

\* what lines 74-78 return for the popped entry when time.time() reads t
consume_result(entry, t) ==
    IF entry = NoneEntry THEN NoneDict
    ELSE IF Expired(entry, t) THEN NoneDict
    ELSE entry.tokens

\* consume_auth_code, lines 74-78: handler p checks the entry and returns
consume_return(p) ==
    /\ h[p].pc = "popped"
    /\ LET r == consume_result(h[p].entry, now) IN
        /\ h' = [h EXCEPT ![p].pc = "returned", ![p].entry = NoneEntry,
                          ![p].result = r]
        /\ minted' = IF r # NoneDict
                       THEN [minted EXCEPT ![h[p].mint].served = @ + 1]
                       ELSE minted
    /\ UNCHANGED <<TOKEN_STORE, AUTH_CODE_STORE, USER_ORG_INFO, now, env,
                   orgStored, resp, lastCall>>

\* time passes between two statements
Tick ==
    /\ now < MaxTime
    /\ now' = now + 1
    /\ UNCHANGED <<TOKEN_STORE, AUTH_CODE_STORE, USER_ORG_INFO, env, h, minted,
                   orgStored, resp, lastCall>>

\* os.environ with nothing set
NoEnv == ("CLIENT_ID" :> None) @@ ("CLIENT_SECRET" :> None) @@
         ("OAUTH_REDIRECT_URI" :> NoUri) @@ ("ORG_ID" :> None) @@
         ("DOMAIN" :> None)

\* os.getenv(name)
getenv(name) == env[name]

InitStores ==
    /\ TOKEN_STORE = EmptyDict
    /\ AUTH_CODE_STORE = EmptyDict
    /\ USER_ORG_INFO = InitOrgInfo
    /\ now = 0
    /\ h = [p \in Handlers |-> IdleHandler]
    /\ minted = <<>>
    /\ orgStored = FALSE
    /\ resp = NoResp
    /\ lastCall = EmptyDict

InitAuthCode == InitStores /\ env = NoEnv

NextAuthCode ==
    \/ \E tokens \in AuthCodeTokens, expires_in \in ExpiresIn, code \in Codes :
           create_auth_code(tokens, expires_in, code)
    \/ \E p \in Handlers, code \in Codes : consume_pop(p, code)
    \/ \E p \in Handlers : consume_return(p)
    \/ Tick

SpecAuthCode == InitAuthCode /\ [][NextAuthCode]_vars

\* the Token Store under any sequence of its three calls, while time passes
NextTokenStore ==
    \/ \E session_id \in SessionIds, tokens \in TokenSets \cup OddTokenSets :
           store_tokens(session_id, tokens)
    \/ \E session_id \in SessionIds : get_tokens_call(session_id)
    \/ \E session_id \in SessionIds : clear_tokens(session_id)
    \/ Tick

SpecTokenStore == InitAuthCode /\ [][NextTokenStore]_vars

\* the three stores of utils/user_oauth.py under calls in any order
NextStores ==
    \/ \E session_id \in SessionIds, tokens \in TokenSets :
           store_tokens(session_id, tokens)
    \/ \E session_id \in SessionIds : clear_tokens(session_id)
    \/ store_user_org_info("o1", "d1")
    \/ \E tokens \in AuthCodeTokens, code \in Codes :
           create_auth_code(tokens, 1, code)
    \/ \E code \in Codes : consume_pop("h1", code)
    \/ consume_return("h1")

SpecStores == InitAuthCode /\ [][NextStores]_vars

\* the Org Context under concurrent handlers, each calling
\* store_user_org_info once, and any number of get_user_org_info calls
NextOrgInfo ==
    \/ \E p \in Handlers, org_id \in OrgIds, domain \in Domains :
           store_org_id(p, org_id, domain)
    \/ \E p \in Handlers : store_domain(p)
    \/ get_user_org_info_call

SpecOrgInfo == InitAuthCode /\ [][NextOrgInfo]_vars

----------------------------------------------------------------------------
(* Claims about the Org Context, under SpecOrgInfo *)

----------------------------------------------------------------------------
(* Claims about the Token Store, under SpecTokenStore *)

\* the token set of the most recent store_tokens(s, ...) that no
\* clear_tokens(s) followed, NoneDict if there is no such call
MostRecentStore(s) ==
    IF s \in DOMAIN lastCall /\ lastCall[s].op = "store_tokens"
    THEN lastCall[s].tokens
    ELSE NoneDict

\* C20: after any sequence of store_tokens, get_tokens and clear_tokens calls,
\* get_tokens(s) returns the token set passed to the most recent
\* store_tokens(s, ...) that was not followed by clear_tokens(s), and none if
\* there is no such store; an entry leaves the store only in a clear_tokens
\* call for its session (time passing evicts nothing).
C20_LastStoreWins ==
    /\ [](\A s \in SessionIds : get_tokens(s) = MostRecentStore(s))
    /\ [](resp.op = "get_tokens" => resp.result = MostRecentStore(resp.session_id))
    /\ [][\A s \in DOMAIN TOKEN_STORE :
            s \notin DOMAIN TOKEN_STORE'
                => resp'.op = "clear_tokens" /\ resp'.session_id = s]_vars

\* C20 witness: get_tokens returned the token set stored for s1 after time
\* has passed and after a clear_tokens call for s2.
C20_Witness ==
    /\ resp.op = "get_tokens"
    /\ resp.session_id = "s1"
    /\ resp.result = [access_token |-> "at1"]
    /\ "s2" \in DOMAIN lastCall /\ lastCall["s2"].op = "clear_tokens"
    /\ now = MaxTime

----------------------------------------------------------------------------
(* Claims about the three stores together, under SpecStores *)

\* this step is a store_tokens or clear_tokens call for session s
TokenCallOn(s) ==
    \/ /\ s \in DOMAIN lastCall'
       /\ s \notin DOMAIN lastCall \/ lastCall'[s] # lastCall[s]
    \/ /\ resp' # resp
       /\ resp'.op \in {"store_tokens", "clear_tokens"}
       /\ resp'.session_id = s

\* this step is a create_auth_code call that returns code c
MintOf(c) == Len(minted') > Len(minted) /\ minted'[Len(minted')].code = c

\* this step is one of consume_auth_code(c)
ConsumeOf(c) == \E p \in Handlers : h'[p] # h[p] /\ h'[p].code = c

OtherSessionsKept(s) ==
    \A t \in SessionIds \ {s} :
        Get(TOKEN_STORE', t, NoneDict) = Get(TOKEN_STORE, t, NoneDict)

OtherCodesKept(c) ==
    \A d \in Codes \ {c} :
        Get(AUTH_CODE_STORE', d, NoneEntry) = Get(AUTH_CODE_STORE, d, NoneEntry)

\* C28: store_tokens(s, ...) and clear_tokens(s) leave the Token Store
\* entries of every other session id, the auth-code store and the Org Context
\* unchanged; create_auth_code and consume_auth_code(c) leave the Token Store,
\* the Org Context and every auth-code entry other than c unchanged.
C28_StoreFrames ==
    [][/\ \A s \in SessionIds :
             TokenCallOn(s)
                 => /\ OtherSessionsKept(s)
                    /\ AUTH_CODE_STORE' = AUTH_CODE_STORE
                    /\ USER_ORG_INFO' = USER_ORG_INFO
       /\ \A c \in Codes :
             MintOf(c) \/ ConsumeOf(c)
                 => /\ TOKEN_STORE' = TOKEN_STORE
                    /\ USER_ORG_INFO' = USER_ORG_INFO
                    /\ OtherCodesKept(c)]_vars

\* C28 witness: with the Org Context set and both codes minted, a token set
\* was stored for s2 after one for s1, and then c1 was consumed while c2
\* stayed in the store.
C28_Witness ==
    /\ orgStored
    /\ DOMAIN TOKEN_STORE = SessionIds
    /\ TOKEN_STORE["s1"] # TOKEN_STORE["s2"]
    /\ h["h1"].pc = "returned" /\ h["h1"].code = "c1"
    /\ h["h1"].result # NoneDict
    /\ DOMAIN AUTH_CODE_STORE = {"c2"}

----------------------------------------------------------------------------
(* Claims about the auth-code store, under SpecAuthCode *)

Returned(p) == h[p].pc = "returned"
Receives(p) == Returned(p) /\ h[p].result # NoneDict

\* C1: for every code create_auth_code returned, a consume_auth_code call made
\* after a call on that code returned the token set returns none, and so does
\* a call made after expires_in seconds have passed since the code was minted.
C1_ExactlyOnce ==
    /\ \A m \in 1 .. Len(minted) : minted[m].served <= 1
    /\ \A p \in Handlers :
           Returned(p) /\ (h[p].spent \/ h[p].clock = "after")
               => h[p].result = NoneDict

\* C1 witness: one handler's call came after the token set of its code was
\* returned, the other's after its code had expired; both returned none.
C1_Witness ==
    \E p, q \in Handlers :
        /\ Returned(p) /\ h[p].spent /\ h[p].result = NoneDict
        /\ Returned(q) /\ ~h[q].spent /\ h[q].clock = "after" /\ h[q].mint # 0
        /\ h[q].result = NoneDict

\* C2: of two handlers that run consume_auth_code at the same time on the same
\* live code, at most one pops the entry and at most one receives its token
\* set, whatever the interleaving.
C2_AtMostOneConsumer ==
    /\ \A p \in Handlers : Receives(p) => h[p].mint # 0
    /\ \A p, q \in Handlers :
           p # q /\ h[p].mint # 0 => h[q].mint # h[p].mint

\* C2 witness: both handlers are inside consume_auth_code on the same code,
\* minted and not yet expired when both were called; one holds the entry and
\* the other found none.
C2_Witness ==
    \E p, q \in Handlers :
        /\ p # q /\ h[p].pc = "popped" /\ h[q].pc = "popped"
        /\ h[p].code = h[q].code
        /\ h[p].mint # 0 /\ h[q].mint = 0
        /\ h[p].clock \in {"before", "at"} /\ h[q].clock \in {"before", "at"}
        /\ ~h[p].spent /\ ~h[q].spent

\* C3: an auth code minted with expires_in = 0, or whose expires_at had been
\* reached when consume_auth_code was called, is never consumable: every
\* consume_auth_code call on it returns none.
C3_ZeroTtlNeverConsumable ==
    \A p \in Handlers :
        /\ Returned(p)
        /\ h[p].mint # 0
        /\ minted[h[p].mint].expires_in = 0 \/ h[p].clock \in {"at", "after"}
        => h[p].result = NoneDict

\* C21: a consume_auth_code(c) call made before c's expiry, on a code c that
\* has not been consumed, returns exactly the token set that was passed to
\* the create_auth_code call that returned c (the latest one, had the same
\* code been returned twice).  The call is before the expiry when its reading
\* of the clock, taken as it returns, is.
C21_ConsumeReturnsMintedTokens ==
    [][\A p \in Handlers :
          /\ h[p].pc = "popped" /\ h'[p].pc = "returned"
          /\ h[p].first
          /\ now < minted[h[p].last].due
          => h'[p].result = minted[h[p].last].tokens]_vars

\* C21 witness: two codes were minted with different token sets, and the
\* first call on the second one, made and finished before its expiry, has
\* returned the second token set.
C21_Witness ==
    \E p \in Handlers :
        /\ Returned(p)
        /\ h[p].first /\ h[p].last = 2 /\ h[p].clock = "before"
        /\ now < minted[2].due
        /\ minted[1].tokens # minted[2].tokens
        /\ minted[1].code # minted[2].code
        /\ h[p].result = minted[2].tokens

\* handler p makes the pop of consume_auth_code in this step
Pops(p) == h'[p] # h[p] /\ h'[p].pc = "popped"

\* C29: consume_auth_code removes the entry for its code from the auth-code
\* store whenever the code is present, including when the entry has expired
\* and none is returned; no other operation removes an entry, so that an
\* expired entry that is never looked up stays in the store.
C29_RemovedOnLookupOnly ==
    /\ [][\A p \in Handlers :
              Pops(p) => h'[p].code \notin DOMAIN AUTH_CODE_STORE']_vars
    /\ [][\A c \in DOMAIN AUTH_CODE_STORE :
              c \notin DOMAIN AUTH_CODE_STORE'
                  => \E p \in Handlers : Pops(p) /\ h'[p].code = c]_vars
    /\ [](\A p \in Handlers :
              Returned(p) /\ h[p].mint # 0 /\ h[p].clock = "after"
                  => h[p].result = NoneDict)

\* C29 witness: a call on an expired code returned none and its entry is
\* gone, while the expired entry of the other code, never looked up, is
\* still in the store.
C29_Witness ==
    \E p \in Handlers :
        /\ Returned(p) /\ h[p].mint # 0 /\ h[p].clock = "after"
        /\ h[p].result = NoneDict
        /\ h[p].code \notin DOMAIN AUTH_CODE_STORE
        /\ \E c \in DOMAIN AUTH_CODE_STORE :
               /\ AUTH_CODE_STORE[c].expires_at < now
               /\ ~minted[AUTH_CODE_STORE[c].mint].called

----------------------------------------------------------------------------
(* routers/oauth.py *)

ChatGPT == "https://chat.openai.com"

\* the text "https://chat.openai.com/aip/", in chunks
ChatGPTCallbackPrefix == <<ChatGPT, "/aip/">>

\* "http://localhost:8000/auth/callback", in chunks
LocalCallback == <<"http://localhost:8000", "/auth/callback">>

\* uri.startswith(prefix)
startswith(uri, prefix) ==
    Len(uri) >= Len(prefix) /\ SubSeq(uri, 1, Len(prefix)) = prefix

\* the redirect_uri values a caller may send: "" is <<>>
URIs ==
    { <<>>,
      ChatGPTCallbackPrefix,
      <<ChatGPT, "/aip/", "g-1/oauth/callback">>,
      <<ChatGPT, "/other">>,
      <<"https://evil.example", "/aip/", "g-1/oauth/callback">>,
      <<"https://chat.openai.com.evil.example", "/aip/">>,
      LocalCallback }

\* `not uri` for a URI-or-None value
FalsyUri(uri) == uri = NoUri \/ uri = <<>>

States == {None, "", "st"}
ProviderCodes == {None, "", "pc1"}
ProviderErrors == {None, "access_denied"}
GrantTypes == {None, "authorization_code", "refresh_token"}
FormCodes == {None, "pc1"}
ClientIds == {None, "cid", "other"}
ClientSecrets == {None, "sec", "wrong"}
Cookies == {None, ""} \cup SessionIds

\* os.environ as routers/oauth.py may find it
OAuthEnvs ==
    { ("CLIENT_ID" :> id) @@ ("CLIENT_SECRET" :> sec) @@
      ("OAUTH_REDIRECT_URI" :> uri) @@ ("ORG_ID" :> None) @@ ("DOMAIN" :> None) :
        id \in {None, "cid"}, sec \in {None, "sec"}, uri \in {NoUri, LocalCallback} }

\* os.getenv(name, default) of a URI-valued variable
getenv_uri(name, default) == IF env[name] = NoUri THEN default ELSE env[name]

\* what the provider's token endpoint may answer: a body that is not JSON, or
\* a JSON object with or without an access_token
ProviderAnswers ==
    {[json |-> FALSE, result |-> NoneDict]} \cup
    {[json |-> TRUE, result |-> d] :
        d \in TokenSets \cup OddTokenSets \cup {[error |-> "invalid_code"]}}

TokenUrl == "https://accounts.zoho.in/oauth/v2/token"
AuthUrl == "https://accounts.zoho.in/oauth/v2/auth"

DefaultScope == "TrainerCentral.sessionapi.ALL,TrainerCentral.sectionapi.ALL,TrainerCentral.courseapi.ALL,TrainerCentral.userapi.ALL,TrainerCentral.talkapi.ALL"

\* a response: raise HTTPException(status, detail), or a returned body; sent
\* are the requests the handler made upstream, got the answers it received
HttpError(op, req, status, detail, body, sent, got) ==
    [op |-> op, req |-> req, status |-> status, detail |-> detail,
     body |-> body, sent |-> sent, got |-> got]

HttpOk(op, req, status, body, sent, got) ==
    [op |-> op, req |-> req, status |-> status, detail |-> None,
     body |-> body, sent |-> sent, got |-> got]

\* variant: the path is tested and the origin is not
IsAnyAipCallback(uri) == Len(uri) >= 2 /\ uri[2] = "/aip/"

\* _is_chatgpt_callback(uri)
_is_chatgpt_callback(uri) == startswith(uri, ChatGPTCallbackPrefix)

\* auth_login, lines 39-49: the query of the authorization URL
LoginParams(client_id, redirect_uri, state) ==
    [scope |-> DefaultScope, client_id |-> client_id, response_type |-> "code",
     access_type |-> "offline", prompt |-> "consent",
     redirect_uri |-> redirect_uri]
    @@ (IF Falsy(state) THEN EmptyDict ELSE ("state" :> state))

\* variant: a missing redirect_uri falls back to the local callback
auth_login_local_fallback(redirect_uri, state) ==
    LET req == [redirect_uri |-> redirect_uri, state |-> state]
        client_id == getenv("CLIENT_ID")
        uri == IF FalsyUri(redirect_uri) THEN LocalCallback ELSE redirect_uri
    IN  IF Falsy(client_id)
        THEN HttpError("auth_login", req, 500, "CLIENT_ID not configured", NoneDict,
                       <<>>, <<>>)
        ELSE IF ~FalsyUri(redirect_uri) /\ ~_is_chatgpt_callback(redirect_uri)
        THEN HttpError("auth_login", req, 400, "redirect_uri must be a ChatGPT callback",
                       NoneDict, <<>>, <<>>)
        ELSE HttpOk("auth_login", req, 307,
                    [url |-> AuthUrl, params |-> LoginParams(client_id, uri, state)],
                    <<>>, <<>>)

\* auth_login: the response for (redirect_uri, state)
auth_login_response(redirect_uri, state) ==
    LET req == [redirect_uri |-> redirect_uri, state |-> state]
        client_id == getenv("CLIENT_ID")
    IN  IF Falsy(client_id)
        THEN HttpError("auth_login", req, 500, "CLIENT_ID not configured", NoneDict,
                       <<>>, <<>>)
        ELSE IF FalsyUri(redirect_uri)
        THEN HttpError("auth_login", req, 400, "redirect_uri is required", NoneDict,
                       <<>>, <<>>)
        ELSE IF ~_is_chatgpt_callback(redirect_uri)
        THEN HttpError("auth_login", req, 400, "redirect_uri must be a ChatGPT callback",
                       NoneDict, <<>>, <<>>)
        ELSE HttpOk("auth_login", req, 307,
                    [url |-> AuthUrl,
                     params |-> LoginParams(client_id, redirect_uri, state)],
                    <<>>, <<>>)

\* GET /auth/login
auth_login(redirect_uri, state) ==
    /\ resp' = auth_login_response(redirect_uri, state)
    /\ UNCHANGED <<TOKEN_STORE, AUTH_CODE_STORE, USER_ORG_INFO, now, env, h,
                   minted, orgStored, lastCall>>

\* the form posted to the provider's token endpoint
ExchangeRequest(code, client_id, client_secret, redirect_uri) ==
    [url |-> TokenUrl, code |-> code, client_id |-> client_id,
     client_secret |-> client_secret, grant_type |-> "authorization_code",
     redirect_uri |-> redirect_uri]

\* variant: the code is exchanged before the error parameter is looked at
auth_callback_exchanges_first(code, error, state, answer) ==
    LET req == [code |-> code, error |-> error, state |-> state]
        sent == <<ExchangeRequest(code, getenv("CLIENT_ID"), getenv("CLIENT_SECRET"),
                                  getenv_uri("OAUTH_REDIRECT_URI", <<>>))>>
    IN  IF Falsy(code)
        THEN HttpError("auth_callback", req, 400, "Missing authorization code",
                       NoneDict, <<>>, <<>>)
        ELSE IF ~Falsy(error)
        THEN HttpError("auth_callback", req, 400, "OAuth error", NoneDict,
                       sent, <<answer>>)
        ELSE HttpOk("auth_callback", req, 200,
                    [message |-> "Provider callback received; tokens exchanged on token endpoint"],
                    sent, <<answer>>)

\* auth_callback: the response for (code, error, state) when the provider,
\* if asked, answers `answer`
auth_callback_response(code, error, state, answer) ==
    LET req == [code |-> code, error |-> error, state |-> state]
        sent == <<ExchangeRequest(code, getenv("CLIENT_ID"), getenv("CLIENT_SECRET"),
                                  getenv_uri("OAUTH_REDIRECT_URI", <<>>))>>
    IN  IF ~Falsy(error)
        THEN HttpError("auth_callback", req, 400, "OAuth error", NoneDict, <<>>, <<>>)
        ELSE IF Falsy(code)
        THEN HttpError("auth_callback", req, 400, "Missing authorization code",
                       NoneDict, <<>>, <<>>)
        ELSE IF ~answer.json
        THEN HttpError("auth_callback", req, 500,
                       "Invalid token response from provider", NoneDict,
                       sent, <<answer>>)
        ELSE IF "access_token" \notin DOMAIN answer.result
        THEN HttpError("auth_callback", req, 500, "token_error", answer.result,
                       sent, <<answer>>)
        ELSE HttpOk("auth_callback", req, 200,
                    [message |-> "Provider callback received; tokens exchanged on token endpoint"],
                    sent, <<answer>>)

\* variant: a callback that succeeds mints a local auth code for the tokens
auth_callback_mints(code, error, state, answer) ==
    /\ resp' = auth_callback_response(code, error, state, answer)
    /\ AUTH_CODE_STORE' =
           IF resp'.status = 200
           THEN Put(AUTH_CODE_STORE, "c1",
                    [tokens |-> answer.result, expires_at |-> ExpiresAt(now, 1),
                     mint |-> 0])
           ELSE AUTH_CODE_STORE
    /\ UNCHANGED <<TOKEN_STORE, USER_ORG_INFO, now, env, h, minted, orgStored,
                   lastCall>>

\* GET /auth/callback
auth_callback(code, error, state, answer) ==
    /\ resp' = auth_callback_response(code, error, state, answer)
    /\ UNCHANGED <<TOKEN_STORE, AUTH_CODE_STORE, USER_ORG_INFO, now, env, h,
                   minted, orgStored, lastCall>>

\* variant: the credential is compared whether supplied or not
CredentialDiffers(supplied, expected) == supplied # expected

\* token_exchange, lines 125 and 127: a supplied credential that is not the
\* configured one
CredentialMismatch(supplied, expected) == ~Falsy(supplied) /\ supplied # expected

\* variant: the client credentials are checked first
token_checks_client_first(grant_type, code, client_id, client_secret) ==
    IF CredentialMismatch(client_id, getenv("CLIENT_ID"))
       \/ CredentialMismatch(client_secret, getenv("CLIENT_SECRET"))
    THEN "invalid_client"
    ELSE IF grant_type = None THEN "field required"
    ELSE IF grant_type # "authorization_code" THEN "unsupported_grant_type"
    ELSE IF Falsy(code) THEN "missing_code"
    ELSE None

\* token_exchange, lines 106-128: the error the local checks end with, None if
\* they all pass
token_checks(grant_type, code, client_id, client_secret) ==
    IF grant_type = None THEN "field required"
    ELSE IF grant_type # "authorization_code" THEN "unsupported_grant_type"
    ELSE IF Falsy(code) THEN "missing_code"
    ELSE IF CredentialMismatch(client_id, getenv("CLIENT_ID")) THEN "invalid_client"
    ELSE IF CredentialMismatch(client_secret, getenv("CLIENT_SECRET"))
    THEN "invalid_client"
    ELSE None

\* the status of each error of token_exchange
ErrorStatus(detail) ==
    CASE detail = "field required" -> 422
      [] detail = "invalid_client" -> 401
      [] OTHER -> 400

\* int(v): of an int the int, of a str the int it spells (ValueError when it
\* spells none), of None a TypeError
PyInt(v) ==
    IF "int" \in DOMAIN v THEN [raised |-> None, value |-> v.int]
    ELSE IF "str" \in DOMAIN v
    THEN LET n == PyIntStr(v.str)
         IN  IF n.raised # None THEN [raised |-> n.raised, value |-> 0]
             ELSE [raised |-> None, value |-> IntOf(n)]
    ELSE [raised |-> "TypeError", value |-> 0]

\* token_exchange, line 154: the int() of the provider's expires_in
ExpiresInOf(result) == PyInt(Get(result, "expires_in", JsonInt(3600)))

\* variant: the provider's dict is handed back as it came
TokenResponseVerbatim(result) == result

\* token_exchange, lines 151-157
TokenResponse(result) ==
    [access_token |-> Get(result, "access_token", None),
     refresh_token |-> Get(result, "refresh_token", None),
     expires_in |-> ExpiresInOf(result).value,
     token_type |-> Get(result, "token_type", "Bearer"),
     scope |-> Get(result, "scope", None)]

\* token_exchange: the response when the provider, if asked, answers `answer`
token_exchange_response(grant_type, code, redirect_uri, client_id, client_secret, answer) ==
    LET req == [grant_type |-> grant_type, code |-> code,
                redirect_uri |-> redirect_uri, client_id |-> client_id,
                client_secret |-> client_secret]
        failed == token_checks(grant_type, code, client_id, client_secret)
        sent == <<ExchangeRequest(code, getenv("CLIENT_ID"), getenv("CLIENT_SECRET"),
                                  redirect_uri)>>
    IN  IF failed # None
        THEN HttpError("token_exchange", req, ErrorStatus(failed), failed, NoneDict,
                       <<>>, <<>>)
        ELSE IF ~answer.json
        THEN HttpError("token_exchange", req, 500,
                       "Invalid token response from provider", NoneDict,
                       sent, <<answer>>)
        ELSE IF "access_token" \notin DOMAIN answer.result
        THEN HttpError("token_exchange", req, 400, "token_error", answer.result,
                       sent, <<answer>>)
        ELSE IF ExpiresInOf(answer.result).raised # None
        THEN HttpError("token_exchange", req, 500, "Internal Server Error", NoneDict,
                       sent, <<answer>>)
        ELSE HttpOk("token_exchange", req, 200, TokenResponse(answer.result),
                    sent, <<answer>>)

\* POST /auth/token
token_exchange(grant_type, code, redirect_uri, client_id, client_secret, answer) ==
    /\ resp' = token_exchange_response(grant_type, code, redirect_uri, client_id,
                                       client_secret, answer)
    /\ UNCHANGED <<TOKEN_STORE, AUTH_CODE_STORE, USER_ORG_INFO, now, env, h,
                   minted, orgStored, lastCall>>

\* variant: the lookup finds nothing
get_tokens_none(session_id) == NoneDict

\* session_tokens, line 170: the lookup
session_lookup(session_id) == get_tokens(session_id)

\* session_tokens: the response for the request's session_id cookie
session_tokens_response(session_id) ==
    LET req == [session_id |-> session_id]
        tokens == session_lookup(session_id)
    IN  IF Falsy(session_id)
        THEN HttpError("session_tokens", req, 401, "No session cookie", NoneDict,
                       <<>>, <<>>)
        ELSE IF tokens = NoneDict
        THEN HttpError("session_tokens", req, 404, "No tokens for session", NoneDict,
                       <<>>, <<>>)
        ELSE HttpOk("session_tokens", req, 200,
                    [session_id |-> session_id, tokens |-> tokens], <<>>, <<>>)

\* GET /auth/session_tokens
session_tokens(session_id) ==
    /\ resp' = session_tokens_response(session_id)
    /\ UNCHANGED <<TOKEN_STORE, AUTH_CODE_STORE, USER_ORG_INFO, now, env, h,
                   minted, orgStored, lastCall>>

InitOAuth == InitStores /\ env \in OAuthEnvs

NextOAuth ==
    \/ \E redirect_uri \in URIs \cup {NoUri}, state \in States :
           auth_login(redirect_uri, state)
    \/ \E code \in ProviderCodes, error \in ProviderErrors,
          answer \in ProviderAnswers :
           auth_callback(code, error, "st", answer)
    \/ \E grant_type \in GrantTypes, code \in FormCodes,
          redirect_uri \in {NoUri, ChatGPTCallbackPrefix},
          client_id \in ClientIds, client_secret \in ClientSecrets,
          answer \in ProviderAnswers :
           token_exchange(grant_type, code, redirect_uri, client_id, client_secret,
                          answer)
    \/ \E session_id \in Cookies : session_tokens(session_id)
    \/ \E tokens \in TokenSets : store_tokens("s1", tokens)
    \/ clear_tokens("s1")

SpecOAuth == InitOAuth /\ [][NextOAuth]_vars

\* the four endpoints while the auth-code store holds codes minted by
\* create_auth_code calls
NextOAuthCodes ==
    \/ \E tokens \in AuthCodeTokens, code \in Codes :
           create_auth_code(tokens, 1, code)
    \/ \E redirect_uri \in {NoUri, ChatGPTCallbackPrefix}, state \in {None, "st"} :
           auth_login(redirect_uri, state)
    \/ \E code \in ProviderCodes, error \in ProviderErrors,
          answer \in ProviderAnswers :
           auth_callback(code, error, "st", answer)
    \/ \E grant_type \in GrantTypes, code \in FormCodes,
          answer \in ProviderAnswers :
           token_exchange(grant_type, code, ChatGPTCallbackPrefix, None, None, answer)
    \/ \E session_id \in Cookies : session_tokens(session_id)
    \/ \E tokens \in TokenSets : store_tokens("s1", tokens)

SpecOAuthCodes == InitOAuth /\ [][NextOAuthCodes]_vars

----------------------------------------------------------------------------
(* Claims about the OAuth endpoints, under SpecOAuth *)

Supplied(v) == v # None /\ v # ""

\* the origin (scheme and host) of a URI is its first chunk
KnownOrigin(uri) == ~FalsyUri(uri) /\ uri[1] = ChatGPT

Configured(name) == Supplied(env[name])

\* C4: a GET /auth/callback that succeeds (code present, the provider answers
\* with an access_token) stores the exchanged tokens under a session id, so
\* that GET /auth/session_tokens with that session id returns those tokens.
C4_CallbackStoresSession ==
    resp.op = "auth_callback" /\ resp.status = 200
        => \E s \in SessionIds :
              /\ session_tokens_response(s).status = 200
              /\ session_tokens_response(s).body.tokens = resp.got[1].result

\* C5 as stated: GET /auth/login redirects only for a redirect_uri of the known
\* downstream origin; for a missing or any other redirect_uri it fails with
\* HTTP 400 and produces no redirect.
C5_LoginRejectsWith400 ==
    resp.op = "auth_login"
        => /\ resp.status = 307 => KnownOrigin(resp.req.redirect_uri)
           /\ ~KnownOrigin(resp.req.redirect_uri) => resp.status = 400

\* C5 as amended: GET /auth/login redirects only for a redirect_uri of the
\* known downstream origin and only when CLIENT_ID is configured; for a missing
\* or any other redirect_uri it produces no redirect and fails with HTTP 400
\* when CLIENT_ID is configured, with HTTP 500 when it is not.
C5_LoginRejects ==
    resp.op = "auth_login"
        => /\ resp.status = 307
                => KnownOrigin(resp.req.redirect_uri) /\ Configured("CLIENT_ID")
           /\ ~KnownOrigin(resp.req.redirect_uri)
                => /\ resp.status = IF Configured("CLIENT_ID") THEN 400 ELSE 500
                   /\ resp.body = NoneDict

\* C5 witness: a redirect_uri of another origin was refused with HTTP 400.
C5_Witness ==
    /\ resp.op = "auth_login"
    /\ ~FalsyUri(resp.req.redirect_uri)
    /\ ~KnownOrigin(resp.req.redirect_uri)
    /\ resp.status = 400

\* C6 as stated: GET /auth/login called without a redirect target (CLIENT_ID
\* being configured) redirects to the provider's authorization URL, built
\* with the fixed local callback.
C6_LoginDirectFlowRedirects ==
    /\ resp.op = "auth_login"
    /\ FalsyUri(resp.req.redirect_uri)
    /\ Configured("CLIENT_ID")
    => /\ resp.status = 307
       /\ resp.body.url = AuthUrl
       /\ resp.body.params.redirect_uri = LocalCallback

\* C6 as amended: GET /auth/login called without a redirect target never
\* redirects: it fails with HTTP 400 "redirect_uri is required" (HTTP 500 when
\* CLIENT_ID is not configured); the authorization URL of every redirect it
\* issues carries the caller's redirect_uri, never a fixed local callback.
C6_LoginWithoutTargetFails ==
    resp.op = "auth_login"
        => /\ FalsyUri(resp.req.redirect_uri)
                => /\ resp.status \in {400, 500}
                   /\ resp.body = NoneDict
                   /\ Configured("CLIENT_ID")
                        => /\ resp.status = 400
                           /\ resp.detail = "redirect_uri is required"
           /\ resp.status = 307
                => /\ resp.body.url = AuthUrl
                   /\ resp.body.params.redirect_uri = resp.req.redirect_uri
                   /\ resp.body.params.redirect_uri # LocalCallback

\* C6 witness: a login without redirect_uri was refused with HTTP 400.
C6_Witness ==
    /\ resp.op = "auth_login"
    /\ resp.req.redirect_uri = NoUri
    /\ resp.status = 400
    /\ resp.detail = "redirect_uri is required"

BadGrant(r) == r.grant_type # "authorization_code"
NoCode(r) == ~Supplied(r.code)
BadClient(r) ==
    \/ Supplied(r.client_id) /\ r.client_id # env["CLIENT_ID"]
    \/ Supplied(r.client_secret) /\ r.client_secret # env["CLIENT_SECRET"]

\* C7: POST /auth/token asks the provider only after all local checks pass: a
\* grant_type other than authorization_code, a missing code and a mismatching
\* client credential each end the request with an error, in that order of
\* precedence, and then nothing is sent to the provider.
C7_ChecksBeforeExchange ==
    resp.op = "token_exchange"
        => LET r == resp.req IN
           /\ BadGrant(r)
                => /\ resp.detail \in {"unsupported_grant_type", "field required"}
                   /\ resp.status \in {400, 422}
                   /\ resp.sent = <<>>
           /\ ~BadGrant(r) /\ NoCode(r)
                => resp.status = 400 /\ resp.detail = "missing_code" /\ resp.sent = <<>>
           /\ ~BadGrant(r) /\ ~NoCode(r) /\ BadClient(r)
                => resp.status = 401 /\ resp.detail = "invalid_client" /\ resp.sent = <<>>
           /\ resp.sent # <<>>
                => ~BadGrant(r) /\ ~NoCode(r) /\ ~BadClient(r) /\ Len(resp.sent) = 1

\* C7 witness: a request wrong in all three ways ended as unsupported_grant_type.
C7_Witness ==
    /\ resp.op = "token_exchange"
    /\ resp.req.grant_type = "refresh_token"
    /\ NoCode(resp.req) /\ BadClient(resp.req)
    /\ resp.detail = "unsupported_grant_type"
    /\ resp.sent = <<>>

\* C8 as stated: in POST /auth/token a supplied client_id or client_secret that
\* differs from the configured one always yields invalid_client (HTTP 401), and
\* a request that omits both is never rejected as invalid_client.
C8_MismatchAlways401 ==
    resp.op = "token_exchange"
        => /\ BadClient(resp.req)
                => resp.status = 401 /\ resp.detail = "invalid_client"
           /\ ~Supplied(resp.req.client_id) /\ ~Supplied(resp.req.client_secret)
                => resp.detail # "invalid_client"

\* C8 as amended: in POST /auth/token client_id and client_secret are each
\* validated exactly when supplied: once the grant_type and code checks have
\* passed, the request is rejected as invalid_client (HTTP 401) exactly when a
\* supplied value differs from the configured one; a request that omits both
\* is never rejected as invalid_client.
C8_ValidatedWhenSupplied ==
    resp.op = "token_exchange"
        => /\ ~BadGrant(resp.req) /\ ~NoCode(resp.req)
                => (BadClient(resp.req)
                        <=> resp.status = 401 /\ resp.detail = "invalid_client")
           /\ resp.status = 401 <=> resp.detail = "invalid_client"
           /\ ~Supplied(resp.req.client_id) /\ ~Supplied(resp.req.client_secret)
                => resp.detail # "invalid_client"

\* C8 witness: a well-formed request with a wrong client_secret alone was
\* rejected as invalid_client.
C8_Witness ==
    /\ resp.op = "token_exchange"
    /\ ~BadGrant(resp.req) /\ ~NoCode(resp.req)
    /\ resp.req.client_id = None
    /\ resp.req.client_secret = "wrong"
    /\ resp.status = 401

\* C9, the response: 401 without a session_id cookie, 404 when the Token Store
\* has no entry for the cookie, else the token set stored for it.
C9_SessionTokensResponse ==
    resp.op = "session_tokens"
        => LET c == resp.req.session_id IN
           /\ ~Supplied(c) => resp.status = 401
           /\ Supplied(c) /\ c \notin DOMAIN TOKEN_STORE => resp.status = 404
           /\ Supplied(c) /\ c \in DOMAIN TOKEN_STORE
                => /\ resp.status = 200
                   /\ resp.body.session_id = c
                   /\ resp.body.tokens = TOKEN_STORE[c]

\* C9: GET /auth/session_tokens fails with 401 without a session_id cookie,
\* with 404 when the Token Store has no entry for the cookie, otherwise returns
\* exactly the token set stored for that session id; it never changes the
\* Token Store.
C9_SessionTokens ==
    /\ []C9_SessionTokensResponse
    /\ [][resp'.op = "session_tokens" => TOKEN_STORE' = TOKEN_STORE]_vars

\* C9 witness: the stored token set of a session was returned.
C9_Witness ==
    /\ resp.op = "session_tokens"
    /\ resp.status = 200
    /\ resp.body.tokens = TOKEN_STORE["s1"]

TokenFields == {"access_token", "refresh_token", "expires_in", "token_type", "scope"}

\* the provider's expires_in is absent or spells an int
WellFormedExpiresIn(result) ==
    "expires_in" \in DOMAIN result
        => result.expires_in \in {JsonInt(7200), JsonStr(<<" ", "7", "2", "0", "0">>)}

\* the number of seconds the provider's answer stands for
SecondsOf(result) == IF "expires_in" \in DOMAIN result THEN 7200 ELSE 3600

\* C14, the successful exchange: the 200 response of POST /auth/token has
\* exactly the five fields, each the provider's value, with None for an
\* omitted refresh_token or scope, 3600 for an omitted expires_in and
\* "Bearer" for an omitted token_type.
C14_FiveFields ==
    resp.op = "token_exchange" /\ resp.status = 200
        => LET result == resp.got[1].result IN
           /\ resp.got[1].json
           /\ "access_token" \in DOMAIN result
           /\ WellFormedExpiresIn(result)
           /\ DOMAIN resp.body = TokenFields
           /\ resp.body.access_token = result.access_token
           /\ resp.body.refresh_token = Get(result, "refresh_token", None)
           /\ resp.body.expires_in = SecondsOf(result)
           /\ resp.body.token_type = Get(result, "token_type", "Bearer")
           /\ resp.body.scope = Get(result, "scope", None)

\* C14: on a successful exchange, POST /auth/token returns exactly the five
\* fields access_token, refresh_token, expires_in, token_type, scope taken
\* from the provider response, with expires_in defaulting to 3600 and
\* token_type to Bearer when the provider omits them; when the provider
\* response has no access_token the endpoint returns an error and no token
\* response.
C14_NormalizedTokenResponse ==
    /\ C14_FiveFields
    /\ resp.op = "token_exchange" /\ resp.got # <<>>
          => LET answer == resp.got[1] IN
             /\ answer.json /\ "access_token" \in DOMAIN answer.result
                   /\ WellFormedExpiresIn(answer.result)
                 => resp.status = 200
             /\ ~answer.json \/ "access_token" \notin DOMAIN answer.result
                 => /\ resp.status >= 400
                    /\ resp.detail # None
                    /\ DOMAIN resp.body \cap TokenFields = {}

\* C14 witness: the provider answered with an access_token alone and the
\* response carries the two defaults.
C14_Witness ==
    /\ resp.op = "token_exchange"
    /\ resp.status = 200
    /\ resp.got[1].result = [access_token |-> "at1"]
    /\ resp.body.expires_in = 3600
    /\ resp.body.token_type = "Bearer"

\* C14, the other half witnessed: the provider answered without an
\* access_token and the endpoint failed with 400.
C14_WitnessNoToken ==
    /\ resp.op = "token_exchange"
    /\ resp.got # <<>>
    /\ resp.got[1].result = [error |-> "invalid_code"]
    /\ resp.status = 400

\* C15: when GET /auth/callback receives an error parameter from the provider
\* the handler fails at once (400), sends no code-exchange request to the
\* provider, and leaves the Token Store and the auth-code store unchanged.
C15_ProviderErrorEndsFlow ==
    /\ [](resp.op = "auth_callback" /\ Supplied(resp.req.error)
            => /\ resp.status = 400
               /\ resp.detail = "OAuth error"
               /\ resp.sent = <<>>
               /\ resp.got = <<>>)
    /\ [][resp'.op = "auth_callback" /\ Supplied(resp'.req.error)
            => /\ TOKEN_STORE' = TOKEN_STORE
               /\ AUTH_CODE_STORE' = AUTH_CODE_STORE]_vars

\* C15 witness: a callback carrying both a code and an error parameter failed
\* while the Token Store held a session.
C15_Witness ==
    /\ resp.op = "auth_callback"
    /\ resp.req.error = "access_denied"
    /\ Supplied(resp.req.code)
    /\ resp.status = 400
    /\ "s1" \in DOMAIN TOKEN_STORE

OAuthEndpoints == {"auth_login", "auth_callback", "token_exchange", "session_tokens"}

C25_CallbackSendsLoginRedirectUri ==
    [][/\ resp.op = "auth_login" /\ resp.status = 307
       /\ resp'.op = "auth_callback" /\ resp'.sent # <<>>
       => resp'.sent[1].redirect_uri = resp.body.params.redirect_uri]_vars

----------------------------------------------------------------------------
(* library/courses.py, library/chapters.py, library/common_utils.py *)

GatewayClasses ==
    {"TrainerCentralCourses", "TrainerCentralChapters", "TrainerCentralCommon"}

\* os.environ as the Gateway clients may find it
GatewayEnvs ==
    { ("CLIENT_ID" :> None) @@ ("CLIENT_SECRET" :> None) @@
      ("OAUTH_REDIRECT_URI" :> NoUri) @@ ("ORG_ID" :> org) @@ ("DOMAIN" :> dom) :
        org \in {None, "envorg"}, dom \in {None, "https://env.example"} }

\* a or b
PyOr(a, b) == IF Falsy(a) THEN b ELSE a

\* variant: `and` for `or`
NotConfiguredBoth(org_id, domain) == Falsy(org_id) /\ Falsy(domain)

\* __init__: not self.ORG_ID or not self.DOMAIN
NotConfigured(org_id, domain) == Falsy(org_id) \/ Falsy(domain)

\* self.oauth.get_access_token() of utils/oauth.py
ZohoAccessToken == "zoho-access-token"

NoClient == [cls |-> None]

\* __init__ of a Gateway client: the client, or NoClient when it raises
\* ValueError
GatewayInit(cls) ==
    LET org_info == get_user_org_info
        ORG_ID == PyOr(org_info.org_id, getenv("ORG_ID"))
        DOMAIN_ == PyOr(org_info.domain, getenv("DOMAIN"))
    IN  IF NotConfigured(ORG_ID, DOMAIN_)
        THEN NoClient
        ELSE [cls |-> cls, ORG_ID |-> ORG_ID, DOMAIN_ |-> DOMAIN_,
              base_url |-> <<DOMAIN_, "/api/v4/", ORG_ID>>]

\* what the upstream API may answer: a status and a body, JSON or not
UpstreamAnswers ==
    { [status |-> 200, json |-> TRUE, body |-> [id |-> "r1"]],
      [status |-> 404, json |-> TRUE, body |-> [error |-> "not found"]],
      [status |-> 500, json |-> TRUE, body |-> [error |-> "internal"]],
      [status |-> 500, json |-> FALSE, body |-> NoneDict] }

\* the outcome of a call on a Gateway client: what it raised or returned, the
\* requests it made upstream and the answers it got
GatewayOutcome(op, cls, raised, returned, sent, got) ==
    [op |-> op, cls |-> cls, raised |-> raised, returned |-> returned,
     sent |-> sent, got |-> got]

\* response.json()
JsonOutcome(op, cls, request, answer) ==
    IF answer.json
    THEN GatewayOutcome(op, cls, None, answer.body, <<request>>, <<answer>>)
    ELSE GatewayOutcome(op, cls, "JSONDecodeError", NoneDict, <<request>>, <<answer>>)

\* cls()
construct(cls) ==
    /\ resp' = IF GatewayInit(cls) = NoClient
                 THEN GatewayOutcome("construct", cls, "ValueError", NoneDict, <<>>, <<>>)
                 ELSE GatewayOutcome("construct", cls, None, GatewayInit(cls), <<>>, <<>>)
    /\ UNCHANGED <<TOKEN_STORE, AUTH_CODE_STORE, USER_ORG_INFO, now, env, h,
                   minted, orgStored, lastCall>>

\* TrainerCentralCourses().post_course(course_data)
post_course(course_data, answer) ==
    /\ LET cls == "TrainerCentralCourses"
           self == GatewayInit(cls)
       IN  resp' =
             IF self = NoClient
             THEN GatewayOutcome("post_course", cls, "ValueError", NoneDict, <<>>, <<>>)
             ELSE JsonOutcome("post_course", cls,
                      [method |-> "POST", url |-> self.base_url \o <<"/courses.json">>,
                       bearer |-> ZohoAccessToken, json |-> [course |-> course_data]],
                      answer)
    /\ UNCHANGED <<TOKEN_STORE, AUTH_CODE_STORE, USER_ORG_INFO, now, env, h,
                   minted, orgStored, lastCall>>

\* TrainerCentralCommon().delete_resource(resource, resource_id)
delete_resource(resource, resource_id, answer) ==
    /\ LET cls == "TrainerCentralCommon"
           self == GatewayInit(cls)
       IN  resp' =
             IF self = NoClient
             THEN GatewayOutcome("delete_resource", cls, "ValueError", NoneDict, <<>>, <<>>)
             ELSE JsonOutcome("delete_resource", cls,
                      [method |-> "DELETE",
                       url |-> self.base_url \o <<"/", resource, "/", resource_id, ".json">>,
                       bearer |-> ZohoAccessToken, json |-> NoneDict],
                      answer)
    /\ UNCHANGED <<TOKEN_STORE, AUTH_CODE_STORE, USER_ORG_INFO, now, env, h,
                   minted, orgStored, lastCall>>

InitGateway == InitStores /\ env \in GatewayEnvs

NextGateway ==
    \/ \E org_id \in OrgIds, domain \in Domains : store_user_org_info(org_id, domain)
    \/ \E cls \in GatewayClasses : construct(cls)
    \/ \E course_data \in {[courseName |-> "Python Basics"]},
          answer \in UpstreamAnswers :
           post_course(course_data, answer)
    \/ \E resource \in {"courses", "sessions"}, resource_id \in {"r1"},
          answer \in UpstreamAnswers :
           delete_resource(resource, resource_id, answer)

SpecGateway == InitGateway /\ [][NextGateway]_vars

----------------------------------------------------------------------------
(* Claims about the Gateway clients, under SpecGateway *)

GatewayOps == {"construct", "post_course", "delete_resource"}

----------------------------------------------------------------------------
(* utils/date_converter.py *)

\* datetime's calendar: _is_leap, _DAYS_IN_MONTH, _DAYS_BEFORE_MONTH,
\* _days_before_year, _days_before_month, _ymd2ord
_is_leap(year) == year % 4 = 0 /\ (year % 100 # 0 \/ year % 400 = 0)

_DAYS_IN_MONTH == <<31, 28, 31, 30, 31, 30, 31, 31, 30, 31, 30, 31>>

_DAYS_BEFORE_MONTH == <<0, 31, 59, 90, 120, 151, 181, 212, 243, 273, 304, 334>>

_days_in_month(year, month) ==
    IF month = 2 /\ _is_leap(year) THEN 29 ELSE _DAYS_IN_MONTH[month]

_days_before_year(year) ==
    LET y == year - 1
    IN  y * 365 + (y \div 4) - (y \div 100) + (y \div 400)

_days_before_month(year, month) ==
    _DAYS_BEFORE_MONTH[month] + (IF month > 2 /\ _is_leap(year) THEN 1 ELSE 0)

_ymd2ord(year, month, day) ==
    _days_before_year(year) + _days_before_month(year, month) + day

\* a datetime, or the exception its construction raised
DatetimeError(raised) ==
    [raised |-> raised, year |-> 0, month |-> 0, day |-> 0, hour |-> 0,
     minute |-> 0, second |-> 0, aware |-> FALSE, utcoffset |-> 0]

Datetime(year, month, day, hour, minute, second, aware, utcoffset) ==
    [raised |-> None, year |-> year, month |-> month, day |-> day,
     hour |-> hour, minute |-> minute, second |-> second, aware |-> aware,
     utcoffset |-> utcoffset]

\* the range checks of datetime(...)
ValidFields(year, month, day, hour, minute, second) ==
    /\ year \in 1..9999
    /\ month \in 1..12
    /\ day \in 1.._days_in_month(year, month)
    /\ hour \in 0..23 /\ minute \in 0..59 /\ second \in 0..59

\* datetime(year, month, day, hour, minute) of the Python ints year, month,
\* day: OverflowError for an argument that does not fit a C int, ValueError
\* for one out of range
datetime(year, month, day, hour, minute) ==
    IF OverflowsCInt(year) \/ OverflowsCInt(month) \/ OverflowsCInt(day)
    THEN DatetimeError("OverflowError")
    ELSE IF ~ValidFields(IntOf(year), IntOf(month), IntOf(day), hour, minute, 0)
    THEN DatetimeError("ValueError")
    ELSE Datetime(IntOf(year), IntOf(month), IntOf(day), hour, minute, 0, FALSE, 0)

\* the offset east of UTC, in seconds, of the host's local time zone
LocalUtcOffset == env["TZ"]

\* variant: a naive datetime is taken as UTC
timestamp_utc(dt) ==
    (_ymd2ord(dt.year, dt.month, dt.day) - _ymd2ord(1970, 1, 1)) * 86400
    + dt.hour * 3600 + dt.minute * 60 + dt.second
    - (IF dt.aware THEN dt.utcoffset ELSE 0)

\* dt.timestamp(), whole seconds: a naive datetime is local time (years
\* 1902..2037, whose seconds since the epoch fit the integers of the model)
timestamp(dt) ==
    (_ymd2ord(dt.year, dt.month, dt.day) - _ymd2ord(1970, 1, 1)) * 86400
    + dt.hour * 3600 + dt.minute * 60 + dt.second
    - (IF dt.aware THEN dt.utcoffset ELSE LocalUtcOffset)

\* str(int(dt.timestamp() * 1000))
Milliseconds(dt) == PyStr(Times1000(PyIntOf(timestamp(dt))))

TwoDigits(s, i) == s[i] \in DigitChars /\ s[i + 1] \in DigitChars
TwoDigitVal(s, i) == 10 * DigitVal(s[i]) + DigitVal(s[i + 1])

\* datetime.fromisoformat(s), for the forms every Python 3.7+ takes:
\* YYYY-MM-DD, then possibly one separator character and HH:MM or HH:MM:SS,
\* then possibly +HH:MM or -HH:MM; ValueError otherwise
fromisoformat(s) ==
    LET n == Len(s)
        okDate == /\ n >= 10
                  /\ TwoDigits(s, 1) /\ TwoDigits(s, 3) /\ s[5] = "-"
                  /\ TwoDigits(s, 6) /\ s[8] = "-" /\ TwoDigits(s, 9)
        rest == SubSeq(s, 12, n)
        hasTz == Len(rest) >= 6 /\ rest[Len(rest) - 5] \in {"+", "-"}
        clock == IF hasTz THEN SubSeq(rest, 1, Len(rest) - 6) ELSE rest
        tz == SubSeq(rest, Len(rest) - 5, Len(rest))
        okClock == /\ Len(clock) \in {5, 8}
                   /\ TwoDigits(clock, 1) /\ clock[3] = ":" /\ TwoDigits(clock, 4)
                   /\ Len(clock) = 8 => clock[6] = ":" /\ TwoDigits(clock, 7)
        okTz == hasTz => /\ TwoDigits(tz, 2) /\ tz[4] = ":" /\ TwoDigits(tz, 5)
                         /\ TwoDigitVal(tz, 2) \in 0..23
                         /\ TwoDigitVal(tz, 5) \in 0..59
        year == 100 * TwoDigitVal(s, 1) + TwoDigitVal(s, 3)
        month == TwoDigitVal(s, 6)
        day == TwoDigitVal(s, 9)
        hour == IF n = 10 THEN 0 ELSE TwoDigitVal(clock, 1)
        minute == IF n = 10 THEN 0 ELSE TwoDigitVal(clock, 4)
        second == IF n = 10 \/ Len(clock) = 5 THEN 0 ELSE TwoDigitVal(clock, 7)
        offset == (IF tz[1] = "-" THEN -1 ELSE 1)
                  * (TwoDigitVal(tz, 2) * 3600 + TwoDigitVal(tz, 5) * 60)
    IN  IF ~okDate \/ (n > 10 /\ ~(okClock /\ okTz))
        THEN DatetimeError("ValueError")
        ELSE IF ~ValidFields(year, month, day, hour, minute, second)
        THEN DatetimeError("ValueError")
        ELSE Datetime(year, month, day, hour, minute, second,
                      n > 10 /\ hasTz, IF n > 10 /\ hasTz THEN offset ELSE 0)

Lower(c) ==
    CASE c = "A" -> "a" [] c = "P" -> "p" [] c = "M" -> "m" [] OTHER -> c

\* variant: PM adds twelve hours, AM none, whatever the hour
Hour24Naive(hour, p) == IF p = <<"a", "m">> THEN hour ELSE hour + 12

\* _strptime: the hour of the 12-hour clock and its AM/PM marker as an hour
\* of the day
Hour24(hour, p) ==
    IF p = <<"a", "m">>
    THEN (IF hour = 12 THEN 0 ELSE hour)
    ELSE (IF hour = 12 THEN 12 ELSE hour + 12)

\* the struct_time of datetime.strptime(time_str, "%I:%M%p"), or ValueError:
\* the pattern (1[0-2]|0[1-9]|[1-9]):([0-5]\d|\d)(am|pm), letters in
\* either case, has to match all of time_str
strptime(time_str) ==
    LET parts == Split(time_str, ":")
        I == parts[1]
        rest == parts[2]
        n == Len(rest)
        M == SubSeq(rest, 1, n - 2)
        p == <<Lower(rest[n - 1]), Lower(rest[n])>>
        okI == /\ AllDigits(I)
               /\ \/ Len(I) = 1 /\ I[1] # "0"
                  \/ Len(I) = 2 /\ I[1] = "1" /\ I[2] \in {"0", "1", "2"}
                  \/ Len(I) = 2 /\ I[1] = "0" /\ I[2] # "0"
        okM == /\ AllDigits(M)
               /\ \/ Len(M) = 1
                  \/ Len(M) = 2 /\ M[1] \in {"0", "1", "2", "3", "4", "5"}
        okp == p \in {<<"a", "m">>, <<"p", "m">>}
        hour == ToInt(I)
    IN  IF Len(parts) # 2 \/ n < 3 \/ ~okI \/ ~okM \/ ~okp
        THEN [raised |-> "ValueError", hour |-> 0, minute |-> 0]
        ELSE [raised |-> None,
              hour |-> Hour24(hour, p),
              minute |-> ToInt(M)]

DateFormats == {"DD-MM-YYYY HH:MMAM/PM", "YYYY-MM-DDTHH:MM:SS", "YYYY-MM-DD"}

\* what convert_date_to_time ends with: the str it returns, or the exception
\* it raises with the input and the formats its message names
DateReturned(givenDate, ms) ==
    [op |-> "convert_date_to_time", givenDate |-> givenDate, raised |-> None,
     input |-> <<>>, formats |-> {}, returned |-> ms]

DateRaised(givenDate, raised, input, formats) ==
    [op |-> "convert_date_to_time", givenDate |-> givenDate, raised |-> raised,
     input |-> input, formats |-> formats, returned |-> <<>>]

\* lines 42-54: the DD-MM-YYYY HH:MMAM/PM fallback
convert_dmy(givenDate) ==
    LET words == SplitWhitespace(givenDate)
        date_str == words[1]
        time_str == words[2]
        fields == Split(date_str, "-")
        day == PyIntStr(fields[1])
        month == PyIntStr(fields[2])
        year == PyIntStr(fields[3])
        time_obj == strptime(time_str)
        target_date == datetime(year, month, day, time_obj.hour, time_obj.minute)
        failed == DateRaised(givenDate, "ValueError", givenDate,
                             {"DD-MM-YYYY HH:MMAM/PM"})
    IN  IF ~In(" ", givenDate)
        THEN DateRaised(givenDate, "ValueError", givenDate, DateFormats)
        ELSE IF Len(words) # 2 THEN failed
        ELSE IF Len(fields) # 3 THEN failed
        ELSE IF day.raised # None \/ month.raised # None \/ year.raised # None
        THEN failed
        ELSE IF time_obj.raised # None THEN failed
        ELSE IF target_date.raised = "ValueError" THEN failed
        ELSE IF target_date.raised # None
        THEN DateRaised(givenDate, target_date.raised, <<>>, {})
        ELSE DateReturned(givenDate, Milliseconds(target_date))

\* DateConverter().convert_date_to_time(givenDate)
convert_date_to_time(givenDate) ==
    LET iso == fromisoformat(ReplaceZ(givenDate))
        date_only == fromisoformat(givenDate)
    IN  IF In("T", givenDate) /\ iso.raised = None
        THEN DateReturned(givenDate, Milliseconds(iso))
        ELSE IF /\ Count(givenDate, "-") = 2
                /\ ~In(" ", givenDate) /\ ~In("T", givenDate)
                /\ date_only.raised = None
        THEN DateReturned(givenDate, Milliseconds(date_only))
        ELSE convert_dmy(givenDate)

\* what the earlier convert_date_to_time ends with
EarlierReturned(givenDate, ms) ==
    [op |-> "common_utils.convert_date_to_time", givenDate |-> givenDate,
     raised |-> None, returned |-> ms]

EarlierRaised(givenDate, raised) ==
    [op |-> "common_utils.convert_date_to_time", givenDate |-> givenDate,
     raised |-> raised, returned |-> <<>>]

\* library/common_utils.py, lines 67-72: the earlier
\* DateConverter().convert_date_to_time(givenDate); the unpacking of a
\* sequence of another length raises ValueError, as do int and strptime
common_utils_convert_date_to_time(givenDate) ==
    LET words == SplitWhitespace(givenDate)
        date_str == words[1]
        time_str == words[2]
        fields == Split(date_str, "-")
        day == PyIntStr(fields[1])
        month == PyIntStr(fields[2])
        year == PyIntStr(fields[3])
        time_obj == strptime(time_str)
        target_date == datetime(year, month, day, time_obj.hour, time_obj.minute)
        failed == EarlierRaised(givenDate, "ValueError")
    IN  IF Len(words) # 2 THEN failed
        ELSE IF Len(fields) # 3 THEN failed
        ELSE IF day.raised # None \/ month.raised # None \/ year.raised # None
        THEN failed
        ELSE IF time_obj.raised # None THEN failed
        ELSE IF target_date.raised # None
        THEN EarlierRaised(givenDate, target_date.raised)
        ELSE EarlierReturned(givenDate, Milliseconds(target_date))

\* the texts the inputs of convert_date_to_time are put together from
\* days: 1, 29, 31 and the day 0 no month has
DayTexts ==
    { <<"1">>,
      <<"2", "9">>,
      <<"3", "1">>,
      <<"0">> }

\* months: 02, 11, 12 and the month 13
MonthTexts ==
    { <<"0", "2">>,
      <<"1", "1">>,
      <<"1", "2">>,
      <<"1", "3">> }

\* years: 1970, the leap year 2024, 2025, the year 0000 and 99999999999
YearTexts ==
    { <<"1", "9", "7", "0">>,
      <<"2", "0", "2", "4">>,
      <<"2", "0", "2", "5">>,
      <<"0", "0", "0", "0">>,
      <<"9", "9", "9", "9", "9", "9", "9", "9", "9", "9", "9">> }

\* one blank or two between date and time
GapTexts ==
    { <<" ">>,
      <<" ", " ">> }

\* hours of the 12-hour clock, and 0 and 13
HourTexts ==
    { <<"4">>,
      <<"0", "4">>,
      <<"1", "2">>,
      <<"0">>,
      <<"1", "3">> }

\* minutes, one of them of a single digit, and the minute 60
MinuteTexts ==
    { <<"3", "0">>,
      <<"0", "5">>,
      <<"5">>,
      <<"6", "0">> }

\* AM/PM markers, and XM
MarkerTexts ==
    { <<"A", "M">>,
      <<"P", "M">>,
      <<"p", "m">>,
      <<"X", "M">> }

\* texts of the shape D-M-Y H:MIp
DmyDates ==
    { d \o <<"-">> \o m \o <<"-">> \o y \o gap \o hh \o <<":">> \o mi \o p :
        d \in DayTexts, m \in MonthTexts, y \in YearTexts, gap \in GapTexts,
        hh \in HourTexts, mi \in MinuteTexts, p \in MarkerTexts }

\* ISO 8601 texts, and texts of no accepted format
OtherDates ==
    { <<"2", "0", "2", "5", "-", "1", "2", "-", "0", "1", "T", "1", "4", ":", "3", "0", ":", "0", "0">>,
      <<"2", "0", "2", "5", "-", "1", "2", "-", "0", "1", "T", "1", "4", ":", "3", "0", ":", "0", "0", "Z">>,
      <<"2", "0", "2", "5", "-", "1", "2", "-", "0", "1", "T", "1", "4", ":", "3", "0">>,
      <<"2", "0", "2", "5", "-", "1", "2", "-", "0", "1">>,
      <<"2", "0", "2", "4", "-", "0", "2", "-", "2", "9">>,
      <<"2", "0", "2", "5", "-", "0", "2", "-", "2", "9">>,
      <<"2", "0", "2", "5", "-", "1", "3", "-", "0", "1">>,
      <<"2", "0", "2", "5", "-", "1", "2", "-", "0", "1", "T", "2", "5", ":", "0", "0", ":", "0", "0">>,
      <<"1", "9", "7", "0", "-", "0", "1", "-", "0", "1", "T", "0", "0", ":", "0", "0", ":", "0", "0", "Z">>,
      <<"n", "o", "t", "-", "a", "-", "d", "a", "t", "e">>,
      <<"n", "o", "t", " ", "a", " ", "d", "a", "t", "e">>,
      <<"T", "u", "e", "s", "d", "a", "y">>,
      <<"2", "9", "-", "1", "1", "-", "2", "0", "2", "5", "T", "4", ":", "3", "0", "P", "M">>,
      <<"2", "9", "-", "1", "1", "-", "2", "0", "2", "5", "\t", "4", ":", "3", "0", "P", "M">>,
      <<"2", "9", "-", "1", "1", "-", "2", "0", "2", "5", " ", "4", ":", "3", "0", " ", "P", "M">>,
      <<" ", "1", "-", "1", "2", "-", "2", "0", "2", "5", " ", "1", "2", ":", "0", "5", "A", "M">>,
      <<"2", "0", "2", "5", "-", "1", "2", "-", "0", "1", " ">>,
      <<"T", "Z", " ", "2", "0", "2", "5">>,
      <<"+", "1", "-", "+", "2", "-", "+", "2", "0", "2", "5", " ", "1", ":", "5", "p", "m">>,
      <<"0", "1", "-", "0", "1", "-", "2", "1", "4", "7", "4", "8", "3", "6", "4", "7", " ", "1", ":", "0", "0", "P", "M">>,
      <<"0", "1", "-", "0", "1", "-", "2", "1", "4", "7", "4", "8", "3", "6", "4", "8", " ", "1", ":", "0", "0", "P", "M">>,
      <<"2", "1", "4", "7", "4", "8", "3", "6", "4", "8", "-", "0", "1", "-", "2", "0", "2", "5", " ", "1", ":", "0", "0", "P", "M">>,
      <<"2", "9", "-", "1", "1", "-", "2", "0", "2", "5">>,
      <<"2", "0", "2", "5", "-", "1", "2", "-", "0", "1", " ", "1", "4", ":", "3", "0", ":", "0", "0">>,
      <<"1", "-", "1", "-", "1", "9", "7", "0", " ", "5", ":", "3", "0", "A", "M">>,
      <<>> }

GivenDates == DmyDates \cup OtherDates

\* the host's time zone: UTC, UTC+05:30, UTC-05:00
DateEnvs == { ("TZ" :> offset) : offset \in {0, 19800, -18000} }

InitDates ==
    /\ TOKEN_STORE = EmptyDict
    /\ AUTH_CODE_STORE = EmptyDict
    /\ USER_ORG_INFO = InitOrgInfo
    /\ now = 0
    /\ h = [p \in Handlers |-> IdleHandler]
    /\ minted = <<>>
    /\ orgStored = FALSE
    /\ lastCall = EmptyDict
    /\ env \in DateEnvs
    /\ resp \in {[op |-> "given", givenDate |-> givenDate] : givenDate \in GivenDates}

\* dc.convert_date_to_time(givenDate) on the input drawn
Convert ==
    /\ resp.op = "given"
    /\ resp' = convert_date_to_time(resp.givenDate)
    /\ UNCHANGED <<TOKEN_STORE, AUTH_CODE_STORE, USER_ORG_INFO, now, env, h,
                   minted, orgStored, lastCall>>

\* the earlier converter on the input drawn
ConvertEarlier ==
    /\ resp.op = "given"
    /\ resp' = common_utils_convert_date_to_time(resp.givenDate)
    /\ UNCHANGED <<TOKEN_STORE, AUTH_CODE_STORE, USER_ORG_INFO, now, env, h,
                   minted, orgStored, lastCall>>

NextDates == Convert \/ ConvertEarlier

SpecDates == InitDates /\ [][NextDates]_vars

----------------------------------------------------------------------------
(* app.py and routers/courses.py, routers/chapters.py: the HTTP front door *)

\* app.include_router(...): the routers the application serves
IncludedRouters ==
    {"courses", "lessons", "tests", "assignments", "course_live_workshops",
     "global_live_workshops", "oauth"}

AccessTokens == {"t1", "t2"}

\* what a request to the front door ends with: the HTTP status, the exception
\* that escaped the handler if one did, the body, the requests made upstream
\* and the answers they got
RouterOutcome(op, req, status, raised, body, sent, got) ==
    [op |-> op, req |-> req, status |-> status, raised |-> raised,
     body |-> body, sent |-> sent, got |-> got]

\* an exception no handler catches: the server answers 500
Unhandled(op, req, raised, sent, got) ==
    RouterOutcome(op, req, 500, raised, NoneDict, sent, got)

\* no route of the application matches: 404, no handler runs
NotFound(op, req) ==
    RouterOutcome(op, req, 404, None, NoneDict, <<>>, <<>>)

\* what a composite operation reports for a sub-step the upstream failed:
\* UpstreamError with the upstream status and body, or
\* MalformedUpstreamResponse for a body that is not JSON (spec 4.4, 7)
StepFailure(answer) ==
    IF answer.json
    THEN [error |-> "UpstreamError", status |-> answer.status, body |-> answer.body]
    ELSE [error |-> "MalformedUpstreamResponse", status |-> answer.status,
          body |-> NoneDict]

StepFailed(answer) == ~answer.json \/ answer.status \notin 200..299

\* variant: the handler turns a failed sub-step into an error response
AnswerOfAllOrNothing(op, req, out) ==
    IF out.raised = None /\ \A i \in 1..Len(out.got) : ~StepFailed(out.got[i])
    THEN RouterOutcome(op, req, 200, None, out.returned, out.sent, out.got)
    ELSE Unhandled(op, req, "UpstreamError", out.sent, out.got)

\* `return tc.method(...)`: the dict the call returned is the 200 body, an
\* exception it raised escapes the handler
AnswerOf(op, req, out) ==
    IF out.raised = None
    THEN RouterOutcome(op, req, 200, None, out.returned, out.sent, out.got)
    ELSE Unhandled(op, req, out.raised, out.sent, out.got)

\* the application routes a request to the handler of an included router
Dispatch(router, op, req, handled) ==
    IF router \in IncludedRouters THEN handled ELSE NotFound(op, req)

\* the parameters, after self, of the methods of library/courses.py and
\* library/chapters.py
post_course_params == <<"course_data">>
get_course_params == <<"course_id">>
create_chapter_params == <<"section_data">>
update_chapter_params == <<"course_id", "section_id", "updates">>
delete_chapter_params == <<"course_id", "section_id">>

\* tc.method(*args) of a method without defaults: TypeError unless the
\* arguments are as many as the parameters
ArityError(params, args) == Len(args) # Len(params)

\* the request a Gateway client `self` makes
GatewayRequest(self, method, path, json) ==
    [method |-> method, url |-> self.base_url \o path,
     bearer |-> ZohoAccessToken, json |-> json]

\* a handler body `tc = cls(); return tc.method(*args)`, the method making
\* the request `method path json` when it is entered
CallGateway(op, req, cls, params, args, method, path, json, answer) ==
    LET self == GatewayInit(cls)
    IN  IF self = NoClient
        THEN Unhandled(op, req, "ValueError", <<>>, <<>>)
        ELSE IF ArityError(params, args)
        THEN Unhandled(op, req, "TypeError", <<>>, <<>>)
        ELSE AnswerOf(op, req,
                 JsonOutcome(op, cls, GatewayRequest(self, method, path, json), answer))

Responds(r) ==
    /\ resp' = r
    /\ UNCHANGED <<TOKEN_STORE, AUTH_CODE_STORE, USER_ORG_INFO, now, env, h,
                   minted, orgStored, lastCall>>

\* POST /courses/
create_course(body, orgId, access_token, answer) ==
    LET req == [body |-> body, orgId |-> orgId, access_token |-> access_token]
    IN  Responds(Dispatch("courses", "create_course", req,
            CallGateway("create_course", req, "TrainerCentralCourses",
                post_course_params, <<"body.dict()", orgId, access_token>>,
                "POST", <<"/courses.json">>, [course |-> body], answer)))

\* GET /courses/{course_id}
get_course(course_id, orgId, access_token, answer) ==
    LET req == [course_id |-> course_id, orgId |-> orgId,
                access_token |-> access_token]
    IN  Responds(Dispatch("courses", "get_course", req,
            CallGateway("get_course", req, "TrainerCentralCourses",
                get_course_params, <<course_id, orgId, access_token>>,
                "GET", <<"/courses/", course_id, ".json">>, NoneDict, answer)))

\* POST /chapters/
create_chapter(body, orgId, access_token, answer) ==
    LET req == [body |-> body, orgId |-> orgId, access_token |-> access_token]
    IN  Responds(Dispatch("chapters", "create_chapter", req,
            CallGateway("create_chapter", req, "TrainerCentralChapters",
                create_chapter_params, <<"body.dict()", orgId, access_token>>,
                "POST", <<"/sections.json">>, [section |-> body], answer)))

\* PUT /chapters/{course_id}/sections/{section_id}
update_chapter(course_id, section_id, body, orgId, access_token, answer) ==
    LET req == [course_id |-> course_id, section_id |-> section_id,
                body |-> body, orgId |-> orgId, access_token |-> access_token]
    IN  Responds(Dispatch("chapters", "update_chapter", req,
            CallGateway("update_chapter", req, "TrainerCentralChapters",
                update_chapter_params,
                <<course_id, section_id, "body.dict()", orgId, access_token>>,
                "PUT",
                <<"/course/", course_id, "/sections/", section_id, ".json">>,
                [section |-> body], answer)))

\* DELETE /chapters/{course_id}/sections/{section_id}
delete_chapter(course_id, section_id, orgId, access_token, answer) ==
    LET req == [course_id |-> course_id, section_id |-> section_id,
                orgId |-> orgId, access_token |-> access_token]
    IN  Responds(Dispatch("chapters", "delete_chapter", req,
            CallGateway("delete_chapter", req, "TrainerCentralChapters",
                delete_chapter_params,
                <<course_id, section_id, orgId, access_token>>,
                "DELETE",
                <<"/course/", course_id, "/sections/", section_id, ".json">>,
                NoneDict, answer)))

\* a composite create of library/lessons.py, library/assignments.py,
\* library/tests.py (spec 4.4): create the parent, then upload the dependent
\* artifact under the identifier the first call returned; nothing is rolled
\* back, both sub-results are reported under the keys parentKey, dependentKey
CompositeCreate(op, cls, parentKey, dependentKey, parentPath, dependentName, parentJson, dependentJson, a1, a2) ==
    LET self == GatewayInit(cls)
        r1 == GatewayRequest(self, "POST", parentPath, parentJson)
        r2 == GatewayRequest(self, "POST",
                  <<"/parent/", a1.body.id, "/", dependentName, ".json">>,
                  dependentJson)
    IN  IF self = NoClient
        THEN GatewayOutcome(op, cls, "ValueError", NoneDict, <<>>, <<>>)
        ELSE IF StepFailed(a1)
        THEN GatewayOutcome(op, cls, StepFailure(a1).error, NoneDict, <<r1>>, <<a1>>)
        ELSE GatewayOutcome(op, cls, None,
                 (parentKey :> a1.body) @@
                 (dependentKey :> IF StepFailed(a2) THEN StepFailure(a2) ELSE a2.body),
                 <<r1, r2>>, <<a1, a2>>)

\* POST /lessons/create
create_lesson(body, orgId, access_token, a1, a2) ==
    LET req == [body |-> body, orgId |-> orgId, access_token |-> access_token]
    IN  Responds(Dispatch("lessons", "create_lesson", req,
            AnswerOf("create_lesson", req,
                CompositeCreate("create_lesson_with_content", "TrainerCentralLessons",
                    "lesson", "content", <<"/sessions.json">>, "content",
                    [session |-> body.session_data],
                    [html |-> body.content_html, filename |-> body.content_filename],
                    a1, a2))))

\* POST /assignments/create
create_assignment(body, a1, a2) ==
    LET req == [body |-> body]
    IN  Responds(Dispatch("assignments", "create_assignment", req,
            AnswerOf("create_assignment", req,
                CompositeCreate("create_assignment_with_instructions",
                    "TrainerCentralAssignments",
                    "assignment", "instructions", <<"/sessions.json">>, "instructions",
                    [session |-> body.assignment_data],
                    [html |-> body.instruction_html,
                     filename |-> body.instruction_filename,
                     view_type |-> body.view_type],
                    a1, a2))))

\* POST /tests/create_full
create_full_test(body, a1, a2) ==
    LET req == [body |-> body]
    IN  Responds(Dispatch("tests", "create_full_test", req,
            AnswerOf("create_full_test", req,
                CompositeCreate("create_full_test", "TrainerCentralTests",
                    "form", "questions",
                    <<"/session/", body.session_id, "/forms.json">>, "questions",
                    [form |-> [name |-> body.name,
                               description |-> body.description_html]],
                    [questions |-> body.questions],
                    a1, a2))))

LessonBodies ==
    {[session_data |-> [name |-> "Intro", courseId |-> "r1"],
      content_html |-> "<h2>Getting Started</h2>", content_filename |-> "Content"]}
AssignmentBodies ==
    {[assignment_data |-> [name |-> "Project", courseId |-> "r1"],
      instruction_html |-> "<h3>Task</h3>", instruction_filename |-> "Instructions",
      view_type |-> 4]}
FullTestBodies ==
    {[session_id |-> "r2", name |-> "Quiz", description_html |-> "<p>Quiz</p>",
      questions |-> [q1 |-> "mcq"]]}

NextComposite ==
    \/ \E body \in LessonBodies, orgId \in OrgIds, access_token \in AccessTokens,
          a1 \in UpstreamAnswers, a2 \in UpstreamAnswers :
           create_lesson(body, orgId, access_token, a1, a2)
    \/ \E body \in AssignmentBodies, a1 \in UpstreamAnswers, a2 \in UpstreamAnswers :
           create_assignment(body, a1, a2)
    \/ \E body \in FullTestBodies, a1 \in UpstreamAnswers, a2 \in UpstreamAnswers :
           create_full_test(body, a1, a2)

\* a call of library/live_workshops.py (spec 4.3, 4.4): one upstream request
\* by a constructed client, its JSON body returned, a failure reported
LiveWorkshopsCall(op, method, path, json, answer) ==
    LET cls == "TrainerCentralLiveWorkshops"
        self == GatewayInit(cls)
        request == GatewayRequest(self, method, path, json)
    IN  IF self = NoClient
        THEN GatewayOutcome(op, cls, "ValueError", NoneDict, <<>>, <<>>)
        ELSE IF StepFailed(answer)
        THEN GatewayOutcome(op, cls, StepFailure(answer).error, NoneDict,
                            <<request>>, <<answer>>)
        ELSE GatewayOutcome(op, cls, None, answer.body, <<request>>, <<answer>>)

\* int(dc.convert_date_to_time(text)): the Python int, or what was raised
ConvertToInt(text) ==
    LET ms == convert_date_to_time(text)
    IN  IF ms.raised # None
        THEN [raised |-> ms.raised, neg |-> FALSE, mag |-> <<>>]
        ELSE PyIntStr(ms.returned)

\* POST /global_workshops/create
create_global_workshop(body, orgId, access_token, answer) ==
    \E start_ms \in {ConvertToInt(body.start_time)},
       end_ms \in {ConvertToInt(body.end_time)} :
    LET op == "create_global_workshop"
        req == [body |-> body, orgId |-> orgId, access_token |-> access_token]
        session_data == [name |-> body.name, description |-> body.description_html,
                         deliveryMode |-> 3, scheduledTime |-> start_ms,
                         scheduledEndTime |-> end_ms]
    IN  Responds(Dispatch("global_live_workshops", op, req,
            IF start_ms.raised # None
            THEN Unhandled(op, req, start_ms.raised, <<>>, <<>>)
            ELSE IF end_ms.raised # None
            THEN Unhandled(op, req, end_ms.raised, <<>>, <<>>)
            ELSE AnswerOf(op, req,
                     LiveWorkshopsCall(op, "POST", <<"/sessions.json">>,
                                       [session |-> session_data], answer))))

\* POST /global_workshops/occurrence
create_occurrence(body, orgId, access_token, answer) ==
    \E scheduled_ms \in {ConvertToInt(body.scheduledTime)},
       scheduled_end_ms \in {ConvertToInt(body.scheduledEndTime)} :
    LET op == "create_occurrence"
        req == [body |-> body, orgId |-> orgId, access_token |-> access_token]
        base == ("sessionId" :> body.sessionId)
        times == ("scheduledTime" :> scheduled_ms)
                 @@ ("scheduledEndTime" :> scheduled_end_ms)
        duration == IF body.durationTime # NoneDict
                    THEN ("durationTime" :> body.durationTime) ELSE <<>>
        recurrence == IF body.recurrence # NoneDict
                      THEN ("recurrence" :> body.recurrence) ELSE <<>>
        talk_data == [ids |-> base, times |-> times,
                      optional |-> duration @@ recurrence]
    IN  Responds(Dispatch("global_live_workshops", op, req,
            IF scheduled_ms.raised # None
            THEN Unhandled(op, req, scheduled_ms.raised, <<>>, <<>>)
            ELSE IF scheduled_end_ms.raised # None
            THEN Unhandled(op, req, scheduled_end_ms.raised, <<>>, <<>>)
            ELSE AnswerOf(op, req,
                     LiveWorkshopsCall(op, "POST", <<"/talks.json">>,
                                       [talk |-> talk_data], answer))))

\* the date texts of the requests to /global_workshops
WorkshopDates ==
    { <<"2", "0", "2", "5", "-", "1", "2", "-", "0", "1", "T", "1", "4", ":", "3", "0", ":", "0", "0">>,
      <<"n", "o", "t", "-", "a", "-", "d", "a", "t", "e">>,
      <<"0", "1", "-", "0", "1", "-", "9", "9", "9", "9", "9", "9", "9", "9", "9", "9", "9", " ", "1", ":", "0", "0", "P", "M">> }

\* the (start, end) texts of a request: both accepted, or one of them not
WorkshopTimes ==
    LET ok == <<"2", "0", "2", "5", "-", "1", "2", "-", "0", "1", "T", "1", "4", ":", "3", "0", ":", "0", "0">>
    IN  ({ok} \X WorkshopDates) \cup (WorkshopDates \X {ok})

WorkshopBodies ==
    { [name |-> "Workshop", description_html |-> "<p>Learn</p>",
       start_time |-> t[1], end_time |-> t[2]] : t \in WorkshopTimes }

OccurrenceBodies ==
    { [sessionId |-> "r1", scheduledTime |-> t[1], scheduledEndTime |-> t[2],
       durationTime |-> d, recurrence |-> NoneDict] :
        t \in WorkshopTimes, d \in {NoneDict, PyIntOf(60)} }

NextWorkshops ==
    \/ \E body \in WorkshopBodies, orgId \in {"o1"}, access_token \in {"t1"},
          answer \in UpstreamAnswers :
           create_global_workshop(body, orgId, access_token, answer)
    \/ \E body \in OccurrenceBodies, orgId \in {"o1"}, access_token \in {"t1"},
          answer \in UpstreamAnswers :
           create_occurrence(body, orgId, access_token, answer)

\* os.environ as the front door may find it, the host's time zone included
RouterEnvs == { e @@ ("TZ" :> 19800) : e \in GatewayEnvs }

InitRouters == InitStores /\ env \in RouterEnvs

CourseBodies == {[courseName |-> "Python Basics"]}
ChapterBodies == {[courseId |-> "r1", name |-> "Chapter 1"]}
ResourceIds == {"r1", "r2"}

NextCourses ==
    \/ \E body \in CourseBodies, orgId \in OrgIds, access_token \in AccessTokens,
          answer \in UpstreamAnswers :
           create_course(body, orgId, access_token, answer)
    \/ \E course_id \in ResourceIds, orgId \in OrgIds,
          access_token \in AccessTokens, answer \in UpstreamAnswers :
           get_course(course_id, orgId, access_token, answer)

NextChapters ==
    \/ \E body \in ChapterBodies, orgId \in OrgIds, access_token \in AccessTokens,
          answer \in UpstreamAnswers :
           create_chapter(body, orgId, access_token, answer)
    \/ \E course_id \in ResourceIds, section_id \in {"s1"},
          body \in {[name |-> "Chapter 1b"]}, orgId \in OrgIds,
          access_token \in AccessTokens, answer \in UpstreamAnswers :
           update_chapter(course_id, section_id, body, orgId, access_token, answer)
    \/ \E course_id \in ResourceIds, section_id \in {"s1"}, orgId \in OrgIds,
          access_token \in AccessTokens, answer \in UpstreamAnswers :
           delete_chapter(course_id, section_id, orgId, access_token, answer)

NextRouters ==
    \/ \E org_id \in {"o1"}, domain \in {"d1"} : store_user_org_info(org_id, domain)
    \/ NextCourses
    \/ NextChapters
    \/ NextComposite
    \/ NextWorkshops

SpecRouters == InitRouters /\ [][NextRouters]_vars

----------------------------------------------------------------------------
(* Claims about the Gateway operations and the front door *)

Ok2xx(status) == status \in 200..299

\* C12: whenever the upstream API answers a Gateway call with a non-2xx
\* status, the Gateway operation reports an UpstreamError (which carries that
\* status and body); it never hands the upstream body back as its result.
C12_NonOkIsUpstreamError ==
    /\ resp.op \in {"post_course", "delete_resource"}
    /\ resp.got # <<>>
    /\ ~Ok2xx(resp.got[1].status)
    => /\ resp.raised = "UpstreamError"
       /\ resp.returned = NoneDict

\* C11: an endpoint that takes orgId and access_token as request parameters
\* (POST /courses/, GET /courses/{id}) completes by issuing one upstream
\* request, addressed to the caller's orgId and carrying the caller's
\* access_token as bearer token, whatever the process-global org context is.
C11_CallerCredentialsUpstream ==
    resp.op \in {"create_course", "get_course"}
        => /\ Len(resp.sent) = 1
           /\ resp.sent[1].url[3] = resp.req.orgId
           /\ resp.sent[1].bearer = resp.req.access_token

\* C16: every chapter endpoint of the HTTP surface is routed by the
\* application to its chapter handler: a request to it is not answered 404
\* by the router, it reaches the construction of the chapter Gateway client.
C16_ChapterEndpointsRouted ==
    resp.op \in {"create_chapter", "update_chapter", "delete_chapter"}
        => resp # NotFound(resp.op, resp.req)

CompositeOps == {"create_lesson", "create_assignment", "create_full_test"}

C26_ExactlyOneRequest ==
    resp.op \in {"post_course", "delete_resource"} /\ resp.raised # "ValueError"
        => Len(resp.sent) = 1 /\ Len(resp.got) = 1

\* C26, the code exchange: GET /auth/callback and POST /auth/token send at
\* most one request to the provider, and one that failed ends in one error
\* response.
C26_OneExchange ==
    resp.op \in {"auth_callback", "token_exchange"}
        => /\ Len(resp.sent) <= 1 /\ Len(resp.got) = Len(resp.sent)
           /\ resp.got # <<>>
                 /\ (~resp.got[1].json \/ "access_token" \notin DOMAIN resp.got[1].result)
               => resp.status >= 400

\* C26: no operation retries: every non-composite Gateway operation sends
\* exactly one request upstream per invocation, whether that request succeeds
\* or fails, and a failed request (a non-2xx or non-JSON answer) is reported
\* as one failure.
C26_NoRetries ==
    /\ C26_ExactlyOneRequest
    /\ /\ resp.op \in {"post_course", "delete_resource"}
       /\ resp.got # <<>>
       /\ ~Ok2xx(resp.got[1].status) \/ ~resp.got[1].json
       => resp.raised # None /\ resp.returned = NoneDict

----------------------------------------------------------------------------
(* Claims about the Date Normalizer, under SpecDates *)

\* C17: on every input on which all three parse attempts fail,
\* convert_date_to_time fails with InvalidDateFormat (ValueError) carrying
\* the original input and the list of all formats attempted, never with
\* another kind of error.
C17_InvalidDateFormat ==
    resp.op = "convert_date_to_time" /\ resp.raised # None
        => /\ resp.raised = "ValueError"
           /\ resp.input = resp.givenDate
           /\ resp.formats = DateFormats

\* the reference: a wall-clock date and time as numbers, its text written
\* out, and its seconds since the epoch counted year by year, month by month
RefLeap(y) == y % 400 = 0 \/ (y % 4 = 0 /\ y % 100 # 0)

RefMonthLen(y, m) ==
    IF m = 2 THEN (IF RefLeap(y) THEN 29 ELSE 28)
    ELSE IF m \in {4, 6, 9, 11} THEN 30 ELSE 31

RECURSIVE RefDaysOfMonths(_, _)
RefDaysOfMonths(y, m) ==
    IF m = 0 THEN 0 ELSE RefMonthLen(y, m) + RefDaysOfMonths(y, m - 1)

RECURSIVE RefDaysOfYears(_)
RefDaysOfYears(y) ==
    IF y = 1970 THEN 0
    ELSE (IF RefLeap(y - 1) THEN 366 ELSE 365) + RefDaysOfYears(y - 1)

RefFields ==
    { r \in [day : {1, 29, 31}, month : {2, 11, 12}, year : {1970, 2024, 2025},
             hour : {4, 12}, minute : {5, 30}, pm : BOOLEAN] :
        r.day <= RefMonthLen(r.year, r.month) }

RefTwo(n) == <<DigitChar(n \div 10), DigitChar(n % 10)>>
RefNum(n, pad) == IF pad \/ n >= 10 THEN RefTwo(n) ELSE <<DigitChar(n)>>

RefText(r, padDay, padHour, lower) ==
    RefNum(r.day, padDay) \o <<"-">> \o RefTwo(r.month) \o <<"-">>
    \o RefTwo(r.year \div 100) \o RefTwo(r.year % 100) \o <<" ">>
    \o RefNum(r.hour, padHour) \o <<":">> \o RefTwo(r.minute)
    \o (IF r.pm THEN (IF lower THEN <<"p", "m">> ELSE <<"P", "M">>)
        ELSE (IF lower THEN <<"a", "m">> ELSE <<"A", "M">>))

RefTable ==
    { <<RefText(r, padDay, padHour, lower), r>> :
        r \in RefFields, padDay \in BOOLEAN, padHour \in BOOLEAN,
        lower \in BOOLEAN }

RefHour(r) == (r.hour % 12) + (IF r.pm THEN 12 ELSE 0)

RefSeconds(r) ==
    (RefDaysOfYears(r.year) + RefDaysOfMonths(r.year, r.month - 1) + r.day - 1)
        * 86400
    + RefHour(r) * 3600 + r.minute * 60 - LocalUtcOffset

RefMilliseconds(r) ==
    LET n == RefSeconds(r)
        text == PyStr(PyIntOf(n))
    IN  IF n = 0 THEN text ELSE text \o <<"0", "0", "0">>

\* C18: for every valid DD-MM-YYYY HH:MMAM/PM input (12-hour clock, AM/PM in
\* either case, 12:xxAM being hour 0 and 12:xxPM hour 12),
\* convert_date_to_time returns the epoch milliseconds a reference
\* calculation gives for that wall-clock date and time.
C18_MatchesReference ==
    resp.op = "convert_date_to_time"
        => \A e \in RefTable :
              e[1] = resp.givenDate
                  => resp.raised = None /\ resp.returned = RefMilliseconds(e[2])

\* C18 witness: five past midnight, written 12:05AM, was converted.
C18_Witness ==
    /\ resp.op = "convert_date_to_time"
    /\ resp.raised = None
    /\ \E e \in RefTable :
          /\ e[1] = resp.givenDate
          /\ e[2].hour = 12 /\ ~e[2].pm /\ e[2].minute = 5
          /\ RefHour(e[2]) = 0

\* "29-11-2025 4:30PM", the example of the earlier converter's docstring
DocExample ==
    <<"2", "9", "-", "1", "1", "-", "2", "0", "2", "5", " ", "4", ":", "3", "0", "P", "M">>

EarlierOf(givenDate) ==
    resp.op = "common_utils.convert_date_to_time" /\ resp.givenDate = givenDate

C30_LaterAgreesWithEarlier ==
    resp.op = "common_utils.convert_date_to_time" /\ resp.raised = None
        => LET later == convert_date_to_time(resp.givenDate) IN
           later.raised = None /\ later.returned = resp.returned

----------------------------------------------------------------------------
(* Claims about the global workshop endpoints, under SpecRouters *)

DateRejected(text) == convert_date_to_time(text).raised # None

\* C19: POST /global_workshops/create and POST /global_workshops/occurrence
\* normalize both date fields before they construct the Gateway client; when
\* the Date Normalizer rejects either field, the request fails with HTTP 400
\* and no upstream request is issued.
C19_BadDateIs400 ==
    /\ resp.op = "create_global_workshop"
            /\ (DateRejected(resp.req.body.start_time)
                    \/ DateRejected(resp.req.body.end_time))
        => resp.status = 400 /\ resp.sent = <<>>
    /\ resp.op = "create_occurrence"
            /\ (DateRejected(resp.req.body.scheduledTime)
                    \/ DateRejected(resp.req.body.scheduledEndTime))
        => resp.status = 400 /\ resp.sent = <<>>

====
